---- MODULE Spec2Model ----
(***************************************************************************)
(* Verification model of the multi-agent orchestration core.               *)
(*                                                                         *)
(* Modelled here: the persistence-backed Orchestrator                      *)
(* (src/src/orchestrator/orchestrator.py), its agent lookup, and the       *)
(* SQLite helpers of src/src/data/database.py that it calls.  One          *)
(* process_task call is a run; every statement of the call that touches    *)
(* the database or an agent is one step of the run, and each such          *)
(* statement either completes or raises.                                   *)
(*                                                                         *)
(* Spec        every behaviour: agents and database helpers may raise.     *)
(* SpecNoRaise the behaviours in which nothing raises.                     *)
(*                                                                         *)
(* Also modelled, each as a component of its own whose variables stay idle *)
(* in the other specifications:                                            *)
(*                                                                         *)
(* SpecExtract MCPHandler.extract_response                                 *)
(*             (src/src/orchestrator/protocols/mcp_handler.py) on          *)
(*             provider answers built from a few pieces of text.           *)
(* SpecGen     GenAIClient.generate_response (src/src/core/genai_client.py)*)
(*             against a provider that answers or raises.                  *)
(* SpecAgent   execute_task and process_message of FrontAgent, BackAgent   *)
(*             and QAAgent (src/src/agents), in the two versions of the    *)
(*             action bodies the files hold; one agent object serves a few *)
(*             requests one after the other.                               *)
(* SpecContext MCPHandler.create_context on a caller's history list.       *)
(* SpecCode    generate_code of the in-memory Orchestrator                 *)
(*             (src/src/agents/orchestrator.py).                           *)
(* SpecConcurrent  process_task of the persistence-backed Orchestrator     *)
(*             with several calls in progress, their steps interleaved.    *)
(* SpecTask    process_task of the in-memory Orchestrator.                 *)
(* SpecAuth    AuthManager (src/src/auth/auth_manager.py) with its         *)
(*             Session objects and the clock they read.                    *)
(* SpecA2A     A2AHandler                                                  *)
(*             (src/src/orchestrator/protocols/a2a_handler.py): building   *)
(*             and validating messages.                                    *)
(***************************************************************************)
EXTENDS Integers, Sequences, FiniteSets, TLC

(***************************************************************************)
(* Bounds.                                                                 *)
(***************************************************************************)
\* number of process_task calls (runs), made one after the other
NumRuns == 1

Runs == 1..NumRuns

\* number of pieces a provider answer given to extract_response is made of
MaxChunks == 6

\* number of extract_response calls made on one response
MaxExtracts == 2

\* number of generate_response calls made on one client
MaxGenCalls == 1

\* number of requests (execute_task or process_message calls) one agent serves
MaxRequests == 2

\* number of turns in a history handed to create_context
MaxHistory == 3

\* number of create_context calls one caller makes
MaxContextCalls == 1

\* number of process_task calls in progress at the same time
NumConcurrent == 2

\* the hours the clock of the AuthManager runs for, and the tokens issued
ShortClock == 3
LongClock == 26
MaxIssued == 2

\* the messages an A2AHandler builds and the validate_message calls made
MaxMessages == 2
MaxChecks == 2

ConcRuns == 1..NumConcurrent

(***************************************************************************)
(* Text.  A name is a sequence of characters, so that lower() and the      *)
(* substring test of the agent lookup are computed, not assumed.           *)
(***************************************************************************)
K_front == <<"f","r","o","n","t","_","a","g","e","n","t">>
K_back  == <<"b","a","c","k","_","a","g","e","n","t">>
K_qa    == <<"q","a","_","a","g","e","n","t">>

\* role tags, BaseAgent.role
N_front == <<"f","r","o","n","t">>
N_back  == <<"b","a","c","k">>
N_qa    == <<"q","a">>

\* class names, BaseAgent.name
C_front == <<"F","r","o","n","t","A","g","e","n","t">>
C_back  == <<"B","a","c","k","A","g","e","n","t">>
C_qa    == <<"Q","A","A","g","e","n","t">>

\* str.lower() on the characters the names use
LowerChar(c) ==
    CASE c = "A" -> "a"
      [] c = "B" -> "b"
      [] c = "F" -> "f"
      [] c = "Q" -> "q"
      [] OTHER   -> c

Lower(s) == [i \in 1..Len(s) |-> LowerChar(s[i])]

\* Python's `sub in s` on strings
Contains(sub, s) ==
    \E i \in 0..(Len(s) - Len(sub)) : SubSeq(s, i + 1, i + Len(sub)) = sub

\* dict.get(key, default)
Get(d, k, default) == IF k \in DOMAIN d THEN d[k] ELSE default

(***************************************************************************)
(* Agents.  The three agent objects are "front", "back" and "qa".  The     *)
(* Orchestrator reaches an agent only through execute_task(task), so an    *)
(* agent is modelled by what that call can do: dispatch on the action tag, *)
(* then return a result record or raise.                                   *)
(***************************************************************************)
AgentObjs == {"front", "back", "qa"}

\* the action tags each agent's execute_task dispatches on
Actions(agent) ==
    CASE agent = "front" -> {"analyze_task", "prepare_response", "generate_ui_code"}
      [] agent = "back"  -> {"process_task", "generate_api", "analyze_data_model"}
      [] agent = "qa"    -> {"verify_result", "generate_tests", "security_audit"}

\* Text built by f-strings is a sequence of fragments; \o concatenates.
Summaries == {<<"resumo">>}
Errors    == {<<"timeout">>}

\* an exception object; str(exc) is its msg
Exc(type, msg) == [type |-> type, msg |-> msg]
StrExc(exc) == exc.msg

\* what an agent action can raise past its own try/except
AgentExcs == {Exc("ValueError", <<"Invalid format specifier">>)}

\* a result an action returns on its success path
OkResult(s) == [success |-> TRUE, summary |-> s]
\* a result an action returns from its except branch
FailResult(e) == [success |-> FALSE, error |-> e]
\* UnknownAction with a message that leaves the action out
UnknownAction_NoName(action) == [success |-> FALSE, error |-> <<"Ação desconhecida">>]

\* the else branch of execute_task
UnknownAction(action) == [success |-> FALSE, error |-> <<"Ação desconhecida: ", action>>]

ActionResults == {OkResult(s) : s \in Summaries} \cup {FailResult(e) : e \in Errors}

\* what agent.execute_task(task) can do: return a result, or raise
ExecuteTask(agent, task) ==
    IF Get(task, "action", "") \in Actions(agent)
      THEN {[kind |-> "return", value |-> r] : r \in ActionResults}
             \cup {[kind |-> "raise", exc |-> e] : e \in AgentExcs}
      ELSE {[kind |-> "return", value |-> UnknownAction(Get(task, "action", ""))]}

(***************************************************************************)
(* Orchestrator.agents: the registry _execute_agent_task reads.  __init__  *)
(* does not create the attribute: has = FALSE is the object as main.py     *)
(* builds it, and every lookup on it raises AttributeError.  A registry    *)
(* is what a caller assigns to the attribute (in dict insertion order)     *)
(* for the pipeline to reach an agent: keyed by the lookup keys, by the    *)
(* agents' role tags, or by the agents' names.                             *)
(***************************************************************************)
NoAgents == [has |-> FALSE, items |-> <<>>]

Registry(items) == [has |-> TRUE, items |-> items]

RegExact == Registry(<< [name |-> K_front, agent |-> "front"],
                        [name |-> K_back,  agent |-> "back"],
                        [name |-> K_qa,    agent |-> "qa"] >>)

RegRole == Registry(<< [name |-> N_front, agent |-> "front"],
                       [name |-> N_back,  agent |-> "back"],
                       [name |-> N_qa,    agent |-> "qa"] >>)

RegClass == Registry(<< [name |-> C_front, agent |-> "front"],
                        [name |-> C_back,  agent |-> "back"],
                        [name |-> C_qa,    agent |-> "qa"] >>)

Registries == {NoAgents, RegExact, RegRole, RegClass}

\* first index of items whose name satisfies the partial-match test, 0 if none
PartialIndex(items, key) ==
    LET hits == {i \in 1..Len(items) :
                    \/ Contains(Lower(key), Lower(items[i].name))
                    \/ Contains(Lower(items[i].name), Lower(key))}
    IN IF hits = {} THEN 0 ELSE CHOOSE i \in hits : \A j \in hits : i <= j

ExactIndex(items, key) ==
    LET hits == {i \in 1..Len(items) : items[i].name = key}
    IN IF hits = {} THEN 0 ELSE CHOOSE i \in hits : TRUE

\* the agent _execute_agent_task hands the task to, or the fault it raises
Lookup(reg, key) ==
    IF ~reg.has
      THEN [kind |-> "raise",
            exc |-> Exc("AttributeError", <<"'Orchestrator' object has no attribute 'agents'">>)]
    ELSE IF ExactIndex(reg.items, key) # 0
      THEN [kind |-> "agent", agent |-> reg.items[ExactIndex(reg.items, key)].agent]
    ELSE IF PartialIndex(reg.items, key) # 0
      THEN [kind |-> "agent", agent |-> reg.items[PartialIndex(reg.items, key)].agent]
    ELSE [kind |-> "raise",
          exc |-> Exc("ValueError", <<"Agente não encontrado: ">> \o key)]

\* _execute_agent_task(agent_name_key, task_data): the outcomes of the call
ExecuteAgentTask(reg, key, task) ==
    LET l == Lookup(reg, key)
    IN IF l.kind = "raise"
         THEN {[kind |-> "raise", exc |-> l.exc]}
         ELSE {[agent |-> l.agent] @@ o : o \in ExecuteTask(l.agent, task)}

(***************************************************************************)
(* Python values.  A value that may be of more than one type carries its   *)
(* type: a str is its characters, a dict its items.                        *)
(***************************************************************************)
PyStr(chars) == [py |-> "str", s |-> chars]
PyNone       == [py |-> "NoneType"]
PyInt(n)     == [py |-> "int", n |-> n]
PyDict(d)    == [py |-> "dict", d |-> d]
PyList(items) == [py |-> "list", items |-> items]

EmptyDict == [k \in {} |-> 0]

\* what a function call does: return a value, or raise
Return(v) == [kind |-> "return", value |-> v]
Raise(e)  == [kind |-> "raise", exc |-> e]

Min(S) == CHOOSE i \in S : \A j \in S : i <= j

\* Find that searches from the start of the text whatever the start given
Find_FromZero(s, sub, start) ==
    LET hits == {i \in 0..(Len(s) - Len(sub)) : SubSeq(s, i + 1, i + Len(sub)) = sub}
    IN IF hits = {} THEN -1 ELSE Min(hits)

\* str.find(sub, start): the lowest 0-based index at or after start where sub
\* occurs, -1 if there is none
Find(s, sub, start) ==
    LET hits == {i \in start..(Len(s) - Len(sub)) : SubSeq(s, i + 1, i + Len(sub)) = sub}
    IN IF hits = {} THEN -1 ELSE Min(hits)

\* s[a:b] for 0 <= a
Slice(s, a, b) == SubSeq(s, a + 1, b)

(***************************************************************************)
(* Text of a provider answer.  The marker and the fence are their          *)
(* characters; a piece of JSON text or of prose is one element, its        *)
(* inside being of interest to json.loads only.                            *)
(***************************************************************************)
\* "tick" stands for the grave accent character (U+0060)
Ticks    == <<"tick", "tick", "tick">>
JsonWord == <<"j", "s", "o", "n">>
Marker   == Ticks \o JsonWord
Space    == <<" ">>

\* JSON texts that are complete values
ObjA       == "{\"a\":1}"
ObjSummary == "{\"summary\":\"ok\"}"
ObjScore7  == "{\"quality_score\":7,\"summary\":\"ok\"}"
ObjScore42 == "{\"quality_score\":42,\"summary\":\"ok\"}"
ObjScoreNeg == "{\"quality_score\":-1}"
Number7    == "7"
\* the two halves of {"a":1}: neither is JSON, their concatenation is
HalfOpen   == "{\"a\":"
HalfClose  == "1}"

JsonTexts == {ObjA, ObjSummary, ObjScore7, ObjScore42, ObjScoreNeg, Number7}

\* the value json.loads gives for a complete JSON text
JsonValue(t) ==
    CASE t = ObjA        -> PyDict([a |-> 1])
      [] t = ObjSummary  -> PyDict([summary |-> <<"ok">>])
      [] t = ObjScore7   -> PyDict([quality_score |-> 7, summary |-> <<"ok">>])
      [] t = ObjScore42  -> PyDict([quality_score |-> 42, summary |-> <<"ok">>])
      [] t = ObjScoreNeg -> PyDict([quality_score |-> -1])
      [] t = Number7     -> PyInt(7)

IsSpace(c) == c = " "

\* str.strip()
RECURSIVE LStrip(_)
LStrip(s) == IF s # <<>> /\ IsSpace(Head(s)) THEN LStrip(Tail(s)) ELSE s

RECURSIVE RStrip(_)
RStrip(s) ==
    IF s # <<>> /\ IsSpace(s[Len(s)]) THEN RStrip(SubSeq(s, 1, Len(s) - 1)) ELSE s

Strip(s) == LStrip(RStrip(s))

\* the text without the whitespace JSON allows between its tokens
NoSpace(s) == SelectSeq(s, LAMBDA c : ~IsSpace(c))

\* json.loads(s): the parsed value, or JSONDecodeError
JsonLoads(s) ==
    LET t == NoSpace(s)
    IN IF Len(t) = 1 /\ t[1] \in JsonTexts
         THEN Return(JsonValue(t[1]))
       ELSE IF t = <<HalfOpen, HalfClose>>
         THEN Return(JsonValue(ObjA))
       ELSE Raise(Exc("JSONDecodeError", <<"Expecting value">>))

(***************************************************************************)
(* MCPHandler.extract_response                                             *)
(***************************************************************************)
\* ScanAndParse without the test that a closing fence was found: the slice
\* then ends at index -1, one character before the end of the text
ScanAndParse_NoEndTest(content) ==
    IF content.py # "str"
      THEN Raise(Exc("AttributeError", <<"object has no attribute 'find'">>))
      ELSE LET json_start == Find(content.s, Marker, 0)
               json_end   == Find(content.s, Ticks, json_start + 7)
               stop       == IF json_end = -1 THEN Len(content.s) - 1 ELSE json_end
           IN IF json_start # -1
                THEN LET parsed == JsonLoads(Strip(Slice(content.s, json_start + 7, stop)))
                     IN IF parsed.kind = "raise"
                          THEN parsed
                          ELSE Return([content |-> content,
                                       structured_data |-> parsed.value,
                                       has_structured_data |-> TRUE])
                ELSE [kind |-> "pass"]

\* the inner try: the scan for the fenced block and its parse.  "pass" is
\* the end of the try without the return inside the if.
ScanAndParse(content) ==
    IF content.py # "str"
      THEN Raise(Exc("AttributeError", <<"object has no attribute 'find'">>))
      ELSE LET json_start == Find(content.s, Marker, 0)
               json_end   == Find(content.s, Ticks, json_start + 7)
           IN IF json_start # -1 /\ json_end # -1
                THEN LET json_content == Strip(Slice(content.s, json_start + 7, json_end))
                         parsed       == JsonLoads(json_content)
                     IN IF parsed.kind = "raise"
                          THEN parsed
                          ELSE Return([content |-> content,
                                       structured_data |-> parsed.value,
                                       has_structured_data |-> TRUE])
                ELSE [kind |-> "pass"]

\* OuterCatches for a handler that names json.JSONDecodeError alone
OuterCatches_JsonOnly(exc) == exc.type = "JSONDecodeError"

\* `except Exception` of the inner and of the outer try
InnerCatches(exc) == TRUE
OuterCatches(exc) == TRUE

\* the body of the outer try
ExtractBody(model_response) ==
    IF model_response.py # "dict"
      THEN Raise(Exc("AttributeError", <<"object has no attribute 'get'">>))
      ELSE LET content == Get(model_response.d, "content", PyStr(<<>>))
               inner   == ScanAndParse(content)
           IN IF inner.kind = "return" THEN inner
              ELSE IF inner.kind = "raise" /\ ~InnerCatches(inner.exc) THEN inner
              ELSE Return([content |-> content, has_structured_data |-> FALSE])

\* extract_response(model_response): what the call does
ExtractResponse(model_response) ==
    LET body == ExtractBody(model_response)
    IN IF body.kind = "raise" /\ OuterCatches(body.exc)
         THEN Return([content |-> PyStr(<<"Erro ao processar resposta do modelo">>),
                      error |-> StrExc(body.exc),
                      has_structured_data |-> FALSE])
         ELSE body

\* ResponseAfterGet for an extractor that takes the content out of the response
ResponseAfterGet_Pop(model_response) ==
    IF model_response.py = "dict"
      THEN PyDict([k \in DOMAIN model_response.d \ {"content"} |-> model_response.d[k]])
      ELSE model_response

\* the response object once extract_response has read it: dict.get leaves it as it was
ResponseAfterGet(model_response) == model_response

(***************************************************************************)
(* GenAIClient.generate_response.  The provider call is the environment:   *)
(* it returns a completion object or raises.  Temperatures are kept in     *)
(* tenths (0.7 is 7).                                                      *)
(***************************************************************************)
Prose == "texto"

\* a fenced block as a provider writes it
Fenced(body) == Marker \o Space \o body \o Space \o Ticks

\* the answers a provider gives
AnswerTexts ==
    { <<Prose>>, <<ObjSummary>>,
      Fenced(<<ObjSummary>>), Fenced(<<ObjScore7>>), Fenced(<<ObjScore42>>),
      Fenced(<<ObjScoreNeg>>), Fenced(<<Number7>>), Fenced(<<HalfOpen>>) }

\* response.usage
UsageObj == [py |-> "CompletionUsage", prompt_tokens |-> 12, completion_tokens |-> 30,
             total_tokens |-> 42]

\* the object chat.completions.create returns
Completion(choices, usage) == [choices |-> choices, usage |-> usage]
Choice(content) == [message |-> [content |-> content]]

ProviderExcs ==
    { Exc("APIConnectionError", <<"Connection error.">>),
      Exc("AuthenticationError", <<"Incorrect API key provided">>),
      Exc("RateLimitError", <<"Rate limit reached">>) }

\* what self.client.chat.completions.create can do: a well-formed completion
\* (whose content is None when the model answers with no text), a completion
\* without choices or without usage, or an error of the SDK
ProviderOutcomes ==
    {Return(Completion(<<Choice(PyStr(t))>>, UsageObj)) : t \in AnswerTexts}
      \cup { Return(Completion(<<Choice(PyNone)>>, UsageObj)),
             Return(Completion(<<>>, UsageObj)),
             Return(Completion(<<Choice(PyStr(<<Prose>>))>>, PyNone)) }
      \cup {Raise(e) : e \in ProviderExcs}

\* the provider answered with a completion generate_response can read
WellFormed(provider) ==
    /\ provider.kind = "return"
    /\ provider.value.choices # <<>>
    /\ provider.value.usage.py # "NoneType"

\* the calls of self.client.chat.completions.create one generate_response
\* makes, with the keyword arguments of each: the call is the first statement
\* of the try and nothing tests the arguments before it
CreateRequests(messages, model, temperature, max_tokens) ==
    << [ model |-> model, messages |-> messages, temperature |-> temperature,
         max_tokens |-> max_tokens ] >>

\* the body of the try: the provider call and the building of the result
GenerateBody(messages, model, temperature, max_tokens, provider) ==
    IF provider.kind = "raise" THEN provider
    ELSE LET response == provider.value
         IN IF response.choices = <<>>
              THEN Raise(Exc("IndexError", <<"list index out of range">>))
            ELSE IF response.usage.py = "NoneType"
              THEN Raise(Exc("AttributeError",
                             <<"'NoneType' object has no attribute 'prompt_tokens'">>))
            ELSE Return(PyDict([ content |-> response.choices[1].message.content,
                                 role |-> "assistant",
                                 model |-> model,
                                 usage |-> [ prompt_tokens |-> response.usage.prompt_tokens,
                                             completion_tokens |-> response.usage.completion_tokens,
                                             total_tokens |-> response.usage.total_tokens ] ]))

\* GenCatches for a handler that names the SDK's errors alone
GenCatches_SdkErrors(exc) == exc \in ProviderExcs

\* `except Exception as e`
GenCatches(exc) == TRUE

\* the record the except branch returns
GenErrorResponse(exc) ==
    PyDict([ content |-> PyStr(<<"Erro ao gerar resposta: ">> \o StrExc(exc)),
             role |-> "system",
             error |-> TRUE ])

\* generate_response(messages, model, temperature, max_tokens): what the call does
GenerateResponse(messages, model, temperature, max_tokens, provider) ==
    LET body == GenerateBody(messages, model, temperature, max_tokens, provider)
    IN IF body.kind = "raise" /\ GenCatches(body.exc)
         THEN Return(GenErrorResponse(body.exc))
         ELSE body

DefaultModel == "gpt-3.5-turbo"

(***************************************************************************)
(* MCPHandler.create_context                                               *)
(***************************************************************************)
\* `if history:` is false for None and for an empty list
Truthy(history) == history.py = "list" /\ history.items # <<>>

\* CreateContext with the history placed after the user message
CreateContext_HistoryLast(system_prompt, user_message, history) ==
    <<[role |-> "system", content |-> system_prompt]>>
      \o <<[role |-> "user", content |-> user_message]>>
      \o (IF Truthy(history) THEN history.items ELSE <<>>)

CreateContext(system_prompt, user_message, history) ==
    <<[role |-> "system", content |-> system_prompt]>>
      \o (IF Truthy(history) THEN history.items ELSE <<>>)
      \o <<[role |-> "user", content |-> user_message]>>

\* the caller's history list once create_context has returned:
\* messages.extend(history) reads the list and leaves it as it was
HistoryAfter(system_prompt, user_message, history) == history

\* create_agent_prompt(agent_role, task_description)
CreateAgentPrompt(agent_role, task_description) ==
    <<"Você é um agente especializado em ", agent_role, ". Sua tarefa é: ">>
      \o task_description

(***************************************************************************)
(* The agents' actions.  Each agent file holds two versions of its         *)
(* pipeline actions: the methods of the class ("head"), and the bodies     *)
(* left after them by a merge ("tail"), which read the answer through      *)
(* extract_response and fall back to a fixed object.  The files do not     *)
(* parse as they are; the version an agent runs is the one the repair of   *)
(* the file keeps, so both are modelled.                                   *)
(***************************************************************************)
Variants == {"head", "tail"}

\* the actions that have a tail version
TailActions(agent) ==
    CASE agent = "front" -> {"analyze_task", "prepare_response"}
      [] agent = "back"  -> {"process_task"}
      [] agent = "qa"    -> {"verify_result"}

\* the version of the action that runs
VersionOf(agent, action, variant) ==
    IF variant = "tail" /\ action \in TailActions(agent) THEN "tail" ELSE "head"

Temperature(agent) ==
    CASE agent = "front" -> 7 [] agent = "back" -> 5 [] agent = "qa" -> 3

\* CallTemperature when the bodies after the classes leave the argument out:
\* generate_response then takes its default, 0.7
CallTemperature_Default(agent, action, version) ==
    IF version = "tail" THEN 7 ELSE Temperature(agent)

\* the temperature written at the action's generate_response call
CallTemperature(agent, action, version) ==
    CASE action = "analyze_task"       -> 7
      [] action = "prepare_response"   -> 7
      [] action = "generate_ui_code"   -> 7
      [] action = "process_task"       -> 5
      [] action = "generate_api"       -> 5
      [] action = "analyze_data_model" -> 5
      [] action = "verify_result"      -> 3
      [] action = "generate_tests"     -> 3
      [] action = "security_audit"     -> 3

\* the temperature written at process_message's generate_response call
MessageTemperature(agent) ==
    CASE agent = "front" -> 7 [] agent = "back" -> 5 [] agent = "qa" -> 3

\* max_tokens of the action's generate_response call
MaxTokens(action) ==
    CASE action \in {"generate_ui_code", "generate_api"} -> 2000
      [] action \in {"analyze_data_model", "generate_tests", "security_audit"} -> 1500
      [] OTHER -> 1000

\* the f-string that builds the prompt: in the head versions of back
\* process_task and qa verify_result the JSON sample's braces are not doubled,
\* and the f-string raises when it is evaluated
PromptOutcome(agent, action, variant) ==
    IF /\ VersionOf(agent, action, variant) = "head"
       /\ \/ agent = "back" /\ action = "process_task"
          \/ agent = "qa" /\ action = "verify_result"
      THEN Raise(Exc("ValueError", <<"Invalid format specifier">>))
      ELSE Return(<<"prompt: ", action>>)

\* the messages the action sends
ActionMessages(agent, action, variant, prompt) ==
    IF VersionOf(agent, action, variant) = "head"
      THEN CreateContext(prompt, <<>>, PyNone)
      ELSE << [role |-> "system", content |-> <<"agent prompt">>],
              [role |-> "user", content |-> prompt] >>

\* the JSON texts that are objects
JsonObjTexts == JsonTexts \ {Number7}

HasOpenBrace(c)  == c \in JsonObjTexts \cup {HalfOpen}
HasCloseBrace(c) == c \in JsonObjTexts \cup {HalfClose}

\* content.find('{')
FindBrace(s) ==
    LET hits == {i \in 0..(Len(s) - 1) : HasOpenBrace(s[i + 1])}
    IN IF hits = {} THEN -1 ELSE Min(hits)

\* content.rfind('}')
RFindBrace(s) ==
    LET hits == {i \in 0..(Len(s) - 1) : HasCloseBrace(s[i + 1])}
    IN IF hits = {} THEN -1 ELSE CHOOSE i \in hits : \A j \in hits : j <= i

\* the record the except branch of a head action returns
ParseFailure(task, exc) ==
    [ success |-> FALSE,
      error |-> <<"Erro ao analisar resposta: ">> \o StrExc(exc),
      task_id |-> task.task_id ]

NoJsonFound == [error |-> <<"Formato JSON não encontrado na resposta">>]

\* a head action that reads a JSON object out of the answer: front
\* analyze_task, back process_task and analyze_data_model, qa verify_result
\* and security_audit
HeadJsonAction(key, default_summary, task, response) ==
    LET content == Get(response.d, "content", PyStr(<<"{}">>))
    IN IF content.py # "str"
         THEN Return(ParseFailure(task, Exc("AttributeError",
                                            <<"object has no attribute 'find'">>)))
       ELSE LET json_start == FindBrace(content.s)
                json_end   == RFindBrace(content.s) + 1
            IN IF json_start >= 0 /\ json_end > json_start
                 THEN LET parsed == JsonLoads(Slice(content.s, json_start, json_end))
                      IN IF parsed.kind = "raise"
                           THEN Return(ParseFailure(task, parsed.exc))
                           ELSE Return((key :> parsed.value.d) @@
                                       [ success |-> TRUE,
                                         task_id |-> task.task_id,
                                         summary |-> Get(parsed.value.d, "summary",
                                                         default_summary) ])
                 ELSE Return((key :> NoJsonFound) @@
                             [ success |-> TRUE,
                               task_id |-> task.task_id,
                               summary |-> default_summary ])

\* a head action that hands the answer's text on: front prepare_response and
\* generate_ui_code, back generate_api, qa generate_tests
HeadTextAction(key, summary, task, response) ==
    Return((key :> Get(response.d, "content", PyStr(<<>>))) @@
           [ success |-> TRUE, task_id |-> task.task_id, summary |-> summary ])

\* the fixed objects of the tail versions
FrontFallback ==
    [ ui_components |-> <<"Formulário de entrada", "Botões de ação",
                          "Área de exibição de resultados">>,
      user_flows |-> <<"Entrada de dados -> Processamento -> Visualização de resultados">>,
      design_considerations |-> <<"Layout responsivo", "Acessibilidade", "Feedback visual">>,
      summary |-> <<"Interface básica para processamento e visualização de dados">> ]

BackFallback ==
    [ data_models |-> <<"User", "Task", "Result">>,
      apis |-> <<"/api/process", "/api/status", "/api/results">>,
      business_logic |-> <<"Processamento de dados com validação e transformação">>,
      implementation_notes |-> <<"Implementar validação de entrada e tratamento de erros">>,
      summary |-> <<"Lógica de negócios processada com sucesso">> ]

QaFallback ==
    [ requirements_met |-> <<"Funcionalidade básica implementada",
                             "Estrutura de dados adequada">>,
      issues |-> <<"Possível problema de validação de entrada">>,
      improvements |-> <<"Adicionar mais validações", "Melhorar documentação da API">>,
      quality_score |-> 7,
      summary |-> <<"Implementação satisfatória com algumas melhorias sugeridas">> ]

\* the payload of a tail action: the structured data when extract_response
\* found some, the fixed object otherwise
TailPayload(processed, fallback) ==
    IF Get(processed, "has_structured_data", FALSE)
      THEN Get(processed, "structured_data", PyDict(EmptyDict))
      ELSE PyDict(fallback)

\* a tail action that reads an object through extract_response: front
\* analyze_task, back process_task
TailJsonAction(key, fallback, default_summary, response) ==
    LET processed == ExtractResponse(response).value
        payload   == TailPayload(processed, fallback)
    IN IF payload.py # "dict"
         THEN Raise(Exc("AttributeError", <<"object has no attribute 'get'">>))
         ELSE Return((key :> payload.d) @@
                     [ success |-> TRUE,
                       summary |-> Get(payload.d, "summary", default_summary) ])

\* the tail version of qa verify_result
TailVerifyResult(response) ==
    LET processed == ExtractResponse(response).value
        payload   == TailPayload(processed, QaFallback)
    IN IF payload.py # "dict"
         THEN Raise(Exc("AttributeError", <<"object has no attribute 'get'">>))
         ELSE Return([ success |-> TRUE,
                       verification_result |-> payload.d,
                       quality_score |-> Get(payload.d, "quality_score", 5),
                       summary |-> Get(payload.d, "summary", <<"Verificação concluída">>) ])

\* the tail version of front prepare_response
TailPrepareResponse(response) ==
    LET processed == ExtractResponse(response).value
    IN Return([ success |-> TRUE,
                user_response |-> Get(processed, "content",
                                      PyStr(<<"Tarefa processada com sucesso.">>)),
                summary |-> <<"Resposta final preparada">> ])

\* AfterGenerate for an action that calls again on an error-flagged response
AfterGenerate_RetryOnError(response) ==
    IF Get(response.d, "error", FALSE) THEN "dispatch" ELSE "finish"

\* where the action goes with the response in hand: on to reading it,
\* whatever the response is
AfterGenerate(response) == "finish"

\* the messages api_agent_message hands to process_message: the content is
\* the JSON value the request carried
AgentMessages ==
    {[role |-> "user", content |-> c] :
        c \in {PyDict([description |-> <<"Tela de login">>]), PyDict(EmptyDict),
               PyStr(<<"oi">>)}}

\* the agent_role and the default description of each process_message
MessageRole(agent) ==
    CASE agent = "front" -> "front-end" [] agent = "back" -> "back-end" [] agent = "qa" -> "qa"

MessageDefault(agent) ==
    CASE agent = "front" -> <<"Analisar requisitos de interface">>
      [] agent = "back"  -> <<"Processar lógica de negócios">>
      [] agent = "qa"    -> <<"Verificar qualidade e testar">>

\* self.name
AgentName(agent) ==
    CASE agent = "front" -> C_front [] agent = "back" -> C_back [] agent = "qa" -> C_qa

\* message.get("content", {}).get("description", default): a content that is
\* a str has no get
MessagePrompt(agent, message) ==
    LET content == Get(message, "content", PyDict(EmptyDict))
    IN IF content.py # "dict"
         THEN Raise(Exc("AttributeError", <<"'str' object has no attribute 'get'">>))
         ELSE Return(CreateAgentPrompt(MessageRole(agent),
                                       Get(content.d, "description", MessageDefault(agent))))

\* the record process_message returns
MessageResult(agent, response) ==
    [ success |-> TRUE, response |-> ExtractResponse(response).value,
      agent |-> AgentName(agent) ]

\* what the action does with the answer of generate_response
FinishAction(agent, action, variant, task, response) ==
    IF VersionOf(agent, action, variant) = "tail"
      THEN CASE action = "analyze_task" ->
                  TailJsonAction("analysis", FrontFallback, <<"Análise concluída">>, response)
             [] action = "process_task" ->
                  TailJsonAction("processing_result", BackFallback,
                                 <<"Processamento concluído">>, response)
             [] action = "verify_result" -> TailVerifyResult(response)
             [] action = "prepare_response" -> TailPrepareResponse(response)
      ELSE CASE action = "analyze_task" ->
                  HeadJsonAction("analysis", <<"Análise de interface concluída">>,
                                 task, response)
             [] action = "process_task" ->
                  HeadJsonAction("analysis", <<"Processamento de back-end concluído">>,
                                 task, response)
             [] action = "analyze_data_model" ->
                  HeadJsonAction("data_model", <<"Modelo de dados analisado">>,
                                 task, response)
             [] action = "verify_result" ->
                  HeadJsonAction("verification", <<"Verificação de QA concluída">>,
                                 task, response)
             [] action = "security_audit" ->
                  HeadJsonAction("audit", <<"Auditoria de segurança concluída">>,
                                 task, response)
             [] action = "prepare_response" ->
                  HeadTextAction("response", <<"Resposta final preparada">>, task, response)
             [] action = "generate_ui_code" ->
                  HeadTextAction("code", <<"Código de interface gerado">>, task, response)
             [] action = "generate_api" ->
                  HeadTextAction("code", <<"Código de API gerado">>, task, response)
             [] action = "generate_tests" ->
                  HeadTextAction("tests", <<"Testes automatizados gerados">>, task, response)

\* TaskAfter for an action that writes its status into the task
TaskAfter_WritesStatus(agent, action, task) == ("status" :> "processada") @@ task

\* the task dict once the action has run: the actions read it with
\* task.get and build their result as a new dict
TaskAfter(agent, action, task) == task

(***************************************************************************)
(* State.                                                                  *)
(***************************************************************************)
VARIABLES
    agents,        \* Orchestrator.agents, as _execute_agent_task finds it
    tasks,         \* table tasks: row id is the index
    interactions,  \* table agent_interactions, in insertion order
    statusLog,     \* per task id, every status written to its row, in order
    pc,            \* per run, the statement of process_task the run is at
    task_data,     \* per run, the argument of the call
    task_id,       \* per run, the id create_task returned (0 before)
    results,       \* per run, front_result, back_result, qa_result, final_result so far
    caught,        \* per run, the exception bound by `except Exception as exc`
    calls,         \* per run, every agent.execute_task call made, in order
    outcome        \* per run, how the call ended: a returned record or a raised fault

vars == <<agents, tasks, interactions, statusLog, pc, task_data, task_id,
          results, caught, calls, outcome>>

\* one MCPHandler and the response a caller extracts from
VARIABLES
    x_response,    \* the response object the caller holds
    x_calls,       \* every extract_response call made: its argument and what it did
    x_dropped      \* the caller has taken the closing fence out of the content

xvars == <<x_response, x_calls, x_dropped>>

\* one GenAIClient
VARIABLES
    g_calls        \* every generate_response call made: arguments, provider, what it did

gvars == <<g_calls>>

\* one agent serving one execute_task call
VARIABLES
    a_self,        \* the agent object: "front", "back" or "qa"
    a_variant,     \* the version of the pipeline actions the agent's class has
    a_task,        \* the argument of execute_task
    a_pc,          \* the statement the call is at
    a_gen,         \* every generate_response call the request made, in order
    a_response,    \* the response of the last generate_response call
    a_outcome,     \* how the call ended: a returned record or a raised fault
    a_message,     \* the argument of process_message (none: the call is execute_task)
    a_memory,      \* self.memory
    a_count        \* the number of requests the agent has been given

avars == <<a_self, a_variant, a_task, a_pc, a_gen, a_response, a_outcome,
           a_message, a_memory, a_count>>

\* one caller of create_context
VARIABLES
    k_history,     \* the history list the caller holds (None when it has none)
    k_calls        \* every create_context call made: its arguments and its result

kvars == <<k_history, k_calls>>

\* one generate_code call on the in-memory Orchestrator
VARIABLES
    c_agents,      \* the agent objects the Orchestrator was built with
    c_pc,          \* the statement of generate_code the call is at
    c_task,        \* the task dict of the call
    c_results,     \* the results the stages returned, in order
    c_calls,       \* every agent.execute_task call made, in order
    c_outcome      \* how generate_code ended: the record it returned

cvars == <<c_agents, c_pc, c_task, c_results, c_calls, c_outcome>>

\* one process_task call on the in-memory Orchestrator
VARIABLES
    p_agents,      \* the agent objects the Orchestrator was built with
    p_pc,          \* the statement of process_task the call is at
    p_task,        \* the task dict of the call
    p_results,     \* the results the stages returned, in order
    p_calls,       \* every agent.execute_task call made, in order
    p_outcome      \* how process_task ended: the record it returned

pvars == <<p_agents, p_pc, p_task, p_results, p_calls, p_outcome>>

\* one AuthManager and the clock it reads
VARIABLES
    u_bound,       \* how far the clock runs and how many tokens are issued
    u_now,         \* time.time() and datetime.utcnow(), in hours
    u_sessions,    \* AuthManager.sessions: token -> Session
    u_issued,      \* the number of create_token calls made
    u_last,        \* the call made last in the current hour, and what it returned
    u_ended,       \* tokens logged out and not issued again since
    u_lapsed       \* tokens whose session a validation found idle too long

uvars == <<u_bound, u_now, u_sessions, u_issued, u_last, u_ended, u_lapsed>>

\* one A2AHandler and the messages its callers hold
VARIABLES
    m_messages,    \* the messages built so far, in order
    m_checked      \* every validate_message call made: its argument and its result

mvars == <<m_messages, m_checked>>

allvars == <<vars, xvars, gvars, avars, kvars, cvars, pvars, uvars, mvars>>

\* the arguments the callers pass: main.py's form handler, and a bare caller
TaskDatas ==
    { [title |-> "Login form", description |-> "...", user_id |-> 1],
      [description |-> "..."] }

\* a fault of the sqlite3 layer, raised by any helper of database.py
DbError == Exc("OperationalError", <<"database is locked">>)

(***************************************************************************)
(* database.py                                                             *)
(***************************************************************************)
\* the row create_task inserts
NewTaskRow(title, description, user_id, project_id) ==
    [ title |-> title, input_usuario |-> description, status |-> "processing",
      user_id |-> user_id, project_id |-> project_id,
      output_gerado |-> <<>>, completed_at |-> FALSE ]

\* update_task_status on one row: with an output, status, output and completed_at
\* are set; without, the status alone
UpdatedRow(row, status, output) ==
    IF output # <<>>
      THEN [row EXCEPT !.status = status, !.output_gerado = output, !.completed_at = TRUE]
      ELSE [row EXCEPT !.status = status]

\* UpdateTaskStatus for an UPDATE without its WHERE clause
UpdateTaskStatus_AllRows(table, id, status, output) ==
    [i \in 1..Len(table) |-> UpdatedRow(table[i], status, output)]

\* UPDATE tasks ... WHERE id = ?
UpdateTaskStatus(table, id, status, output) ==
    [i \in 1..Len(table) |-> IF i = id THEN UpdatedRow(table[i], status, output) ELSE table[i]]

\* the row log_interaction inserts
InteractionRow(id, agent_name, message) ==
    [task_id |-> id, agent_name |-> agent_name, message |-> message]

\* INSERT INTO agent_interactions
LogInteraction(table, id, agent_name, message) ==
    Append(table, InteractionRow(id, agent_name, message))

\* str(final_result): the text form of a result, not the result
Str(d) == [repr |-> d]

(***************************************************************************)
(* Orchestrator.process_task: the four stages                              *)
(***************************************************************************)
NumStages == 4

\* StageKey with the final stage sent to the QA agent
StageKey_FinalToQa(k) ==
    CASE k = 1 -> K_front [] k = 2 -> K_back [] k = 3 -> K_qa [] k = 4 -> K_qa

\* the key process_task looks the stage's agent up by
StageKey(k) ==
    CASE k = 1 -> K_front [] k = 2 -> K_back [] k = 3 -> K_qa [] k = 4 -> K_front

StageAction(k) ==
    CASE k = 1 -> "analyze_task" [] k = 2 -> "process_task"
      [] k = 3 -> "verify_result" [] k = 4 -> "prepare_response"

\* StageLogName with the QA entry logged under the back-end's name
StageLogName_CopyPaste(k) ==
    CASE k = 1 -> "front_agent" [] k = 2 -> "back_agent"
      [] k = 3 -> "back_agent" [] k = 4 -> "front_agent"

\* the agent_name column of the stage's interaction entry
StageLogName(k) ==
    CASE k = 1 -> "front_agent" [] k = 2 -> "back_agent"
      [] k = 3 -> "qa_agent" [] k = 4 -> "front_agent"

StageLogPrefix(k) ==
    CASE k = 1 -> <<"Análise inicial: ">> [] k = 2 -> <<"Processamento: ">>
      [] k = 3 -> <<"Verificação: ">> [] k = 4 -> <<"Resposta final: ">>

\* the dict handed to stage k, given the results of the stages before it
StageTask(k, id, res, td) ==
    CASE k = 1 -> [action |-> StageAction(k), task_id |-> id, task_data |-> td]
      [] k = 2 -> [action |-> StageAction(k), task_id |-> id,
                   front_analysis |-> res[1], task_data |-> td]
      [] k = 3 -> [action |-> StageAction(k), task_id |-> id,
                   back_result |-> res[2], task_data |-> td]
      [] k = 4 -> [action |-> StageAction(k), task_id |-> id,
                   qa_result |-> res[3], task_data |-> td]

\* the message of stage k's interaction entry
StageMessage(k, result) == StageLogPrefix(k) \o Get(result, "summary", <<"N/A">>)

\* where process_task goes once stage k's entry is logged
AfterLog(k) == IF k < NumStages THEN "exec" ELSE "update"

\* where process_task goes with stage k's result in hand: to the stage's
\* log_interaction, whatever the result's success flag
AfterResult(k, result) == "log"

\* the record the except branch returns
FailureRecord(exc) == [success |-> FALSE, error |-> StrExc(exc)]

Returned(v) == <<[kind |-> "return", value |-> v]>>
Raised(e)   == <<[kind |-> "raise", exc |-> e]>>

Init ==
    /\ agents \in Registries
    /\ tasks = <<>>
    /\ interactions = <<>>
    /\ statusLog = <<>>
    /\ pc = [r \in Runs |-> "idle"]
    /\ task_data = [r \in Runs |-> [description |-> "..."]]
    /\ task_id = [r \in Runs |-> 0]
    /\ results = [r \in Runs |-> <<>>]
    /\ caught = [r \in Runs |-> <<>>]
    /\ calls = [r \in Runs |-> <<>>]
    /\ outcome = [r \in Runs |-> <<>>]

\* a caller enters process_task(task_data); call r is made once the calls
\* before it have ended
Call(r) ==
    /\ pc[r] = "idle"
    /\ \A q \in Runs : q < r => pc[q] = "done"
    /\ \E td \in TaskDatas : task_data' = [task_data EXCEPT ![r] = td]
    /\ pc' = [pc EXCEPT ![r] = "create"]
    /\ UNCHANGED <<agents, tasks, interactions, statusLog, task_id, results,
                   caught, calls, outcome>>
    /\ UNCHANGED <<xvars, gvars, avars, kvars, cvars, pvars, uvars, mvars>>

\* task_id = create_task(...)
CreateTask(r) ==
    /\ pc[r] = "create"
    /\ tasks' = Append(tasks,
                       NewTaskRow(Get(task_data[r], "title", "Sem título"),
                                  Get(task_data[r], "description", ""),
                                  Get(task_data[r], "user_id", 0),
                                  Get(task_data[r], "project_id", "None")))
    /\ statusLog' = Append(statusLog, <<"processing">>)
    /\ task_id' = [task_id EXCEPT ![r] = Len(tasks) + 1]
    /\ pc' = [pc EXCEPT ![r] = "exec"]
    /\ UNCHANGED <<agents, interactions, task_data, results, caught, calls, outcome>>
    /\ UNCHANGED <<xvars, gvars, avars, kvars, cvars, pvars, uvars, mvars>>

\* create_task raises: the call is outside the try, the fault leaves process_task
CreateTaskRaises(r) ==
    /\ pc[r] = "create"
    /\ outcome' = [outcome EXCEPT ![r] = Raised(DbError)]
    /\ pc' = [pc EXCEPT ![r] = "done"]
    /\ UNCHANGED <<agents, tasks, interactions, statusLog, task_data, task_id,
                   results, caught, calls>>
    /\ UNCHANGED <<xvars, gvars, avars, kvars, cvars, pvars, uvars, mvars>>

\* the stage the run is about to execute / has just executed
NextStage(r) == Len(results[r]) + 1
LastStage(r) == Len(results[r])

\* x_result = self._execute_agent_task(key, {...}) returns
ExecStage(r) ==
    /\ pc[r] = "exec"
    /\ LET k  == NextStage(r)
           t  == StageTask(k, task_id[r], results[r], task_data[r])
       IN \E o \in ExecuteAgentTask(agents, StageKey(k), t) :
            /\ o.kind = "return"
            /\ results' = [results EXCEPT ![r] = Append(@, o.value)]
            /\ calls' = [calls EXCEPT ![r] =
                           Append(@, [stage |-> k, agent |-> o.agent, task |-> t])]
            /\ pc' = [pc EXCEPT ![r] = AfterResult(k, o.value)]
    /\ UNCHANGED <<agents, tasks, interactions, statusLog, task_data, task_id,
                   caught, outcome>>
    /\ UNCHANGED <<xvars, gvars, avars, kvars, cvars, pvars, uvars, mvars>>

\* self._execute_agent_task(key, {...}) raises: the lookup, or the agent
ExecStageRaises(r) ==
    /\ pc[r] = "exec"
    /\ LET k  == NextStage(r)
           t  == StageTask(k, task_id[r], results[r], task_data[r])
       IN \E o \in ExecuteAgentTask(agents, StageKey(k), t) :
            /\ o.kind = "raise"
            /\ caught' = [caught EXCEPT ![r] = <<o.exc>>]
            /\ calls' = [calls EXCEPT ![r] =
                           IF "agent" \in DOMAIN o
                             THEN Append(@, [stage |-> k, agent |-> o.agent, task |-> t])
                             ELSE @]
            /\ pc' = [pc EXCEPT ![r] = "except"]
    /\ UNCHANGED <<agents, tasks, interactions, statusLog, task_data, task_id,
                   results, outcome>>
    /\ UNCHANGED <<xvars, gvars, avars, kvars, cvars, pvars, uvars, mvars>>

\* log_interaction(task_id, "<stage>_agent", f"...: {x_result.get('summary','N/A')}")
LogStage(r) ==
    /\ pc[r] = "log"
    /\ LET k == LastStage(r)
       IN /\ interactions' = LogInteraction(interactions, task_id[r], StageLogName(k),
                                            StageMessage(k, results[r][k]))
          /\ pc' = [pc EXCEPT ![r] = AfterLog(k)]
    /\ UNCHANGED <<agents, tasks, statusLog, task_data, task_id, results, caught,
                   calls, outcome>>
    /\ UNCHANGED <<xvars, gvars, avars, kvars, cvars, pvars, uvars, mvars>>

LogStageRaises(r) ==
    /\ pc[r] = "log"
    /\ caught' = [caught EXCEPT ![r] = <<DbError>>]
    /\ pc' = [pc EXCEPT ![r] = "except"]
    /\ UNCHANGED <<agents, tasks, interactions, statusLog, task_data, task_id,
                   results, calls, outcome>>
    /\ UNCHANGED <<xvars, gvars, avars, kvars, cvars, pvars, uvars, mvars>>

\* update_task_status(task_id, "completed", output_gerado=str(final_result));
\* return final_result
UpdateCompleted(r) ==
    /\ pc[r] = "update"
    /\ tasks' = UpdateTaskStatus(tasks, task_id[r], "completed",
                                 <<Str(results[r][NumStages])>>)
    /\ statusLog' = [statusLog EXCEPT ![task_id[r]] = Append(@, "completed")]
    /\ outcome' = [outcome EXCEPT ![r] = Returned(results[r][NumStages])]
    /\ pc' = [pc EXCEPT ![r] = "done"]
    /\ UNCHANGED <<agents, interactions, task_data, task_id, results, caught, calls>>
    /\ UNCHANGED <<xvars, gvars, avars, kvars, cvars, pvars, uvars, mvars>>

UpdateCompletedRaises(r) ==
    /\ pc[r] = "update"
    /\ caught' = [caught EXCEPT ![r] = <<DbError>>]
    /\ pc' = [pc EXCEPT ![r] = "except"]
    /\ UNCHANGED <<agents, tasks, interactions, statusLog, task_data, task_id,
                   results, calls, outcome>>
    /\ UNCHANGED <<xvars, gvars, avars, kvars, cvars, pvars, uvars, mvars>>

\* except Exception as exc: log_interaction(task_id, "system", f"Erro: {str(exc)}")
ExceptLog(r) ==
    /\ pc[r] = "except"
    /\ interactions' = LogInteraction(interactions, task_id[r], "system",
                                      <<"Erro: ">> \o StrExc(caught[r][1]))
    /\ pc' = [pc EXCEPT ![r] = "except_update"]
    /\ UNCHANGED <<agents, tasks, statusLog, task_data, task_id, results, caught,
                   calls, outcome>>
    /\ UNCHANGED <<xvars, gvars, avars, kvars, cvars, pvars, uvars, mvars>>

\* the handler's own log_interaction raises: nothing catches it
ExceptLogRaises(r) ==
    /\ pc[r] = "except"
    /\ outcome' = [outcome EXCEPT ![r] = Raised(DbError)]
    /\ pc' = [pc EXCEPT ![r] = "done"]
    /\ UNCHANGED <<agents, tasks, interactions, statusLog, task_data, task_id,
                   results, caught, calls>>
    /\ UNCHANGED <<xvars, gvars, avars, kvars, cvars, pvars, uvars, mvars>>

\* update_task_status(task_id, "failed"); return {"success": False, "error": str(exc)}
ExceptUpdate(r) ==
    /\ pc[r] = "except_update"
    /\ tasks' = UpdateTaskStatus(tasks, task_id[r], "failed", <<>>)
    /\ statusLog' = [statusLog EXCEPT ![task_id[r]] = Append(@, "failed")]
    /\ outcome' = [outcome EXCEPT ![r] = Returned(FailureRecord(caught[r][1]))]
    /\ pc' = [pc EXCEPT ![r] = "done"]
    /\ UNCHANGED <<agents, interactions, task_data, task_id, results, caught, calls>>
    /\ UNCHANGED <<xvars, gvars, avars, kvars, cvars, pvars, uvars, mvars>>

ExceptUpdateRaises(r) ==
    /\ pc[r] = "except_update"
    /\ outcome' = [outcome EXCEPT ![r] = Raised(DbError)]
    /\ pc' = [pc EXCEPT ![r] = "done"]
    /\ UNCHANGED <<agents, tasks, interactions, statusLog, task_data, task_id,
                   results, caught, calls>>
    /\ UNCHANGED <<xvars, gvars, avars, kvars, cvars, pvars, uvars, mvars>>

Next ==
    \E r \in Runs :
        \/ Call(r)
        \/ CreateTask(r)
        \/ CreateTaskRaises(r)
        \/ ExecStage(r)
        \/ ExecStageRaises(r)
        \/ LogStage(r)
        \/ LogStageRaises(r)
        \/ UpdateCompleted(r)
        \/ UpdateCompletedRaises(r)
        \/ ExceptLog(r)
        \/ ExceptLogRaises(r)
        \/ ExceptUpdate(r)
        \/ ExceptUpdateRaises(r)

(***************************************************************************)
(* extract_response, called by a caller that holds one response: the       *)
(* caller extracts, and may take the closing fence of the block out of     *)
(* the content before it extracts again.                                   *)
(***************************************************************************)
Chunks == {Ticks, JsonWord, Space, <<ObjA>>, <<HalfOpen>>, <<HalfClose>>}

\* the texts made of at most n pieces
RECURSIVE Texts(_)
Texts(n) ==
    IF n = 0 THEN {<<>>}
    ELSE LET shorter == Texts(n - 1)
         IN shorter \cup {t \o c : t \in shorter, c \in Chunks}

\* the responses handed to extract_response: a dict with a text content, with
\* no content, with a content that is None or a number, and no dict at all
ExtractInputs ==
    {PyDict([content |-> PyStr(t), role |-> "assistant"]) : t \in Texts(MaxChunks)}
      \cup { PyDict([role |-> "assistant"]),
             PyDict([content |-> PyNone, role |-> "assistant"]),
             PyDict([content |-> PyInt(5), role |-> "assistant"]),
             PyNone }

XIdle ==
    /\ x_response = PyNone
    /\ x_calls = <<>>
    /\ x_dropped = FALSE

XInit ==
    /\ x_response \in ExtractInputs
    /\ x_calls = <<>>
    /\ x_dropped = FALSE

\* processed = mcp_handler.extract_response(response)
XExtract ==
    /\ Len(x_calls) < MaxExtracts
    /\ x_calls' = Append(x_calls, [arg |-> x_response, out |-> ExtractResponse(x_response)])
    /\ x_response' = ResponseAfterGet(x_response)
    /\ UNCHANGED x_dropped
    /\ UNCHANGED <<vars, gvars, avars, kvars, cvars, pvars, uvars, mvars>>

HasText(model_response) ==
    /\ model_response.py = "dict"
    /\ "content" \in DOMAIN model_response.d
    /\ model_response.d.content.py = "str"

\* the text with the three characters at 0-based index i taken out
WithoutFenceAt(text, i) == SubSeq(text, 1, i) \o SubSeq(text, i + 4, Len(text))

\* the caller removes the closing fence of the block the scan finds
XDropClosingFence ==
    /\ Len(x_calls) = 1
    /\ ~x_dropped
    /\ HasText(x_response)
    /\ LET text       == x_response.d.content.s
           json_start == Find(text, Marker, 0)
           json_end   == Find(text, Ticks, json_start + 7)
       IN /\ json_start # -1
          /\ json_end # -1
          /\ x_response' = PyDict([x_response.d EXCEPT
                                     !.content = PyStr(WithoutFenceAt(text, json_end))])
    /\ x_dropped' = TRUE
    /\ UNCHANGED x_calls
    /\ UNCHANGED <<vars, gvars, avars, kvars, cvars, pvars, uvars, mvars>>

XNext == XExtract \/ XDropClosingFence

(***************************************************************************)
(* generate_response, called directly.                                     *)
(***************************************************************************)
\* the arguments callers pass: temperature in tenths, in and out of [0, 2]
GenTemperatures == {-1, 0, 3, 5, 7, 20, 21}
GenMaxTokens    == {1000, 1500, 2000}

GIdle == g_calls = <<>>

GInit == g_calls = <<>>

GenCallRecord(temperature, max_tokens, provider) ==
    [ temperature |-> temperature, max_tokens |-> max_tokens, provider |-> provider,
      sent |-> CreateRequests(<<>>, DefaultModel, temperature, max_tokens),
      out |-> GenerateResponse(<<>>, DefaultModel, temperature, max_tokens, provider) ]

\* generate_response(...) with the provider answering
GCallProviderAnswers ==
    /\ Len(g_calls) < MaxGenCalls
    /\ \E temperature \in GenTemperatures, max_tokens \in GenMaxTokens,
          provider \in ProviderOutcomes :
            /\ provider.kind = "return"
            /\ g_calls' = Append(g_calls, GenCallRecord(temperature, max_tokens, provider))
    /\ UNCHANGED <<vars, xvars, avars, kvars, cvars, pvars, uvars, mvars>>

\* generate_response(...) with the provider call raising
GCallProviderRaises ==
    /\ Len(g_calls) < MaxGenCalls
    /\ \E temperature \in GenTemperatures, max_tokens \in GenMaxTokens,
          provider \in ProviderOutcomes :
            /\ provider.kind = "raise"
            /\ g_calls' = Append(g_calls, GenCallRecord(temperature, max_tokens, provider))
    /\ UNCHANGED <<vars, xvars, avars, kvars, cvars, pvars, uvars, mvars>>

GNext == GCallProviderAnswers \/ GCallProviderRaises

(***************************************************************************)
(* execute_task of one agent, statement by statement.                      *)
(***************************************************************************)
AllActions == UNION {Actions(agent) : agent \in AgentObjs}

\* the tasks handed to execute_task: every action tag of every agent, a tag no
\* agent has, and no tag at all
AgentTasks ==
    {[action |-> a, task_id |-> 1, task_data |-> [title |-> "Login form"]] :
        a \in AllActions \cup {"bogus"}}
      \cup {[task_id |-> 1, task_data |-> [title |-> "Login form"]]}

AIdle ==
    /\ a_self = "front"
    /\ a_variant = "head"
    /\ a_task = EmptyDict
    /\ a_pc = "idle"
    /\ a_gen = <<>>
    /\ a_response = PyNone
    /\ a_outcome = <<>>
    /\ a_message = <<>>
    /\ a_memory = <<>>
    /\ a_count = 0

\* the agent as main.py builds it: BaseAgent.__init__ sets memory to []
AInit ==
    /\ a_self \in AgentObjs
    /\ a_variant \in Variants
    /\ a_task = EmptyDict
    /\ a_pc = "idle"
    /\ a_gen = <<>>
    /\ a_response = PyNone
    /\ a_outcome = <<>>
    /\ a_message = <<>>
    /\ a_memory = <<>>
    /\ a_count = 0

\* action = task.get("action", "")
ActionOf(task) == Get(task, "action", "")

\* the agent is free to take a request: it has served none, or the last has ended
ACanServe == a_pc \in {"idle", "done"} /\ a_count < MaxRequests

\* a caller enters execute_task(task)
ACall ==
    /\ ACanServe
    /\ \E task \in AgentTasks : a_task' = task
    /\ a_pc' = "dispatch"
    /\ a_gen' = <<>>
    /\ a_response' = PyNone
    /\ a_outcome' = <<>>
    /\ a_message' = <<>>
    /\ a_count' = a_count + 1
    /\ UNCHANGED <<a_self, a_variant, a_memory>>
    /\ UNCHANGED <<vars, xvars, gvars, kvars, cvars, pvars, uvars, mvars>>

\* the else branch of the dispatch
ADispatchUnknown ==
    /\ a_pc = "dispatch"
    /\ ActionOf(a_task) \notin Actions(a_self)
    /\ a_outcome' = <<Return(UnknownAction(ActionOf(a_task)))>>
    /\ a_pc' = "done"
    /\ UNCHANGED <<a_self, a_variant, a_task, a_gen, a_response, a_message, a_memory,
                   a_count>>
    /\ UNCHANGED <<vars, xvars, gvars, kvars, cvars, pvars, uvars, mvars>>

\* the action's prompt f-string raises: the fault leaves execute_task
APromptRaises ==
    /\ a_pc = "dispatch"
    /\ ActionOf(a_task) \in Actions(a_self)
    /\ LET p == PromptOutcome(a_self, ActionOf(a_task), a_variant)
       IN /\ p.kind = "raise"
          /\ a_outcome' = <<p>>
    /\ a_pc' = "done"
    /\ UNCHANGED <<a_self, a_variant, a_task, a_gen, a_response, a_message, a_memory,
                   a_count>>
    /\ UNCHANGED <<vars, xvars, gvars, kvars, cvars, pvars, uvars, mvars>>

\* response = self.genai_client.generate_response(messages=..., temperature=...)
AGenerate ==
    /\ a_pc = "dispatch"
    /\ ActionOf(a_task) \in Actions(a_self)
    /\ LET action == ActionOf(a_task)
           p      == PromptOutcome(a_self, action, a_variant)
           temperature == CallTemperature(a_self, action,
                                          VersionOf(a_self, action, a_variant))
       IN /\ p.kind = "return"
          /\ \E provider \in ProviderOutcomes :
               LET messages == ActionMessages(a_self, action, a_variant, p.value)
                   out == GenerateResponse(messages, DefaultModel, temperature,
                                           MaxTokens(action), provider)
               IN /\ a_gen' = Append(a_gen, [ messages |-> messages,
                                              temperature |-> temperature,
                                              max_tokens |-> MaxTokens(action),
                                              provider |-> provider,
                                              out |-> out ])
                  /\ a_response' = out.value
                  /\ a_pc' = AfterGenerate(out.value)
    /\ UNCHANGED <<a_self, a_variant, a_task, a_outcome, a_message, a_memory, a_count>>
    /\ UNCHANGED <<vars, xvars, gvars, kvars, cvars, pvars, uvars, mvars>>

\* the rest of the action: the answer is read and the result returned
AFinish ==
    /\ a_pc = "finish"
    /\ a_outcome' = <<FinishAction(a_self, ActionOf(a_task), a_variant, a_task, a_response)>>
    /\ a_task' = TaskAfter(a_self, ActionOf(a_task), a_task)
    /\ a_pc' = "done"
    /\ UNCHANGED <<a_self, a_variant, a_gen, a_response, a_message, a_memory, a_count>>
    /\ UNCHANGED <<vars, xvars, gvars, kvars, cvars, pvars, uvars, mvars>>

\* a caller enters process_message(message): self.add_to_memory(message)
AMessage ==
    /\ ACanServe
    /\ \E message \in AgentMessages :
         /\ a_message' = <<message>>
         /\ a_memory' = Append(a_memory, message)
    /\ a_pc' = "m_prompt"
    /\ a_task' = EmptyDict
    /\ a_gen' = <<>>
    /\ a_response' = PyNone
    /\ a_outcome' = <<>>
    /\ a_count' = a_count + 1
    /\ UNCHANGED <<a_self, a_variant>>
    /\ UNCHANGED <<vars, xvars, gvars, kvars, cvars, pvars, uvars, mvars>>

\* building the prompt raises: the fault leaves process_message
AMessagePromptRaises ==
    /\ a_pc = "m_prompt"
    /\ LET p == MessagePrompt(a_self, a_message[1])
       IN /\ p.kind = "raise"
          /\ a_outcome' = <<p>>
    /\ a_pc' = "done"
    /\ UNCHANGED <<a_self, a_variant, a_task, a_gen, a_response, a_message, a_memory,
                   a_count>>
    /\ UNCHANGED <<vars, xvars, gvars, kvars, cvars, pvars, uvars, mvars>>

\* create_context and generate_response of process_message
AMessageGenerate ==
    /\ a_pc = "m_prompt"
    /\ LET p == MessagePrompt(a_self, a_message[1])
           temperature == MessageTemperature(a_self)
       IN /\ p.kind = "return"
          /\ \E provider \in ProviderOutcomes :
               LET messages == CreateContext(p.value, <<Str(a_message[1].content)>>, PyNone)
                   out == GenerateResponse(messages, DefaultModel, temperature,
                                           MaxTokens("process_message"), provider)
               IN /\ a_gen' = Append(a_gen, [ messages |-> messages,
                                              temperature |-> temperature,
                                              max_tokens |-> MaxTokens("process_message"),
                                              provider |-> provider,
                                              out |-> out ])
                  /\ a_response' = out.value
    /\ a_pc' = "m_finish"
    /\ UNCHANGED <<a_self, a_variant, a_task, a_outcome, a_message, a_memory, a_count>>
    /\ UNCHANGED <<vars, xvars, gvars, kvars, cvars, pvars, uvars, mvars>>

\* extract_response and the return of process_message
AMessageFinish ==
    /\ a_pc = "m_finish"
    /\ a_outcome' = <<Return(MessageResult(a_self, a_response))>>
    /\ a_pc' = "done"
    /\ UNCHANGED <<a_self, a_variant, a_task, a_gen, a_response, a_message, a_memory,
                   a_count>>
    /\ UNCHANGED <<vars, xvars, gvars, kvars, cvars, pvars, uvars, mvars>>

ANext ==
    \/ ACall
    \/ ADispatchUnknown
    \/ APromptRaises
    \/ AGenerate
    \/ AFinish
    \/ AMessage
    \/ AMessagePromptRaises
    \/ AMessageGenerate
    \/ AMessageFinish

(***************************************************************************)
(* create_context, called by a caller that holds a history list.           *)
(***************************************************************************)
HistoryTurns ==
    { [role |-> "user", content |-> <<"pergunta">>],
      [role |-> "assistant", content |-> <<"resposta">>],
      [role |-> "system", content |-> <<"nota">>] }

RECURSIVE Turns(_)
Turns(n) ==
    IF n = 0 THEN {<<>>}
    ELSE LET shorter == Turns(n - 1)
         IN shorter \cup {Append(h, t) : h \in shorter, t \in HistoryTurns}

\* the history argument: left out (None), or a list of turns
Histories == {PyNone} \cup {PyList(h) : h \in Turns(MaxHistory)}

SystemPrompts == {<<"Você é um agente de IA.">>, <<>>}
UserMessages  == {<<"oi">>, <<>>}

KIdle ==
    /\ k_history = PyNone
    /\ k_calls = <<>>

KInit ==
    /\ k_history \in Histories
    /\ k_calls = <<>>

\* messages = self.create_context(system_prompt, user_message, history)
KCreateContext ==
    /\ Len(k_calls) < MaxContextCalls
    /\ \E system_prompt \in SystemPrompts, user_message \in UserMessages :
         /\ k_calls' = Append(k_calls,
                              [ system_prompt |-> system_prompt,
                                user_message |-> user_message,
                                history |-> k_history,
                                out |-> CreateContext(system_prompt, user_message,
                                                      k_history) ])
         /\ k_history' = HistoryAfter(system_prompt, user_message, k_history)
    /\ UNCHANGED <<vars, xvars, gvars, avars, cvars, pvars, uvars, mvars>>

KNext == KCreateContext

(***************************************************************************)
(* generate_code of the in-memory Orchestrator (agents/orchestrator.py).   *)
(* It calls agent.execute_task(task, action).  The agents of this          *)
(* repository define execute_task(self, task): with them ("as_written")    *)
(* the call raises TypeError before the agent runs.  "two_arg" agents are  *)
(* agents whose execute_task takes the action as a second argument and     *)
(* returns what the actions of the agent classes return.                   *)
(***************************************************************************)
AgentKinds == {"as_written", "two_arg"}

NumCodeStages == 5

CodeStageAgent(k) ==
    CASE k = 1 -> "back" [] k = 2 -> "back" [] k = 3 -> "front" [] k = 4 -> "qa"
      [] k = 5 -> "qa"

CodeStageAction(k) ==
    CASE k = 1 -> "analyze_data_model" [] k = 2 -> "generate_api"
      [] k = 3 -> "generate_ui_code" [] k = 4 -> "generate_tests"
      [] k = 5 -> "security_audit"

\* the key generate_code reads the stage's output from
CodeReadKey(k) ==
    CASE k = 1 -> "model" [] k = 2 -> "code" [] k = 3 -> "code" [] k = 4 -> "tests"
      [] k = 5 -> "audit"

\* the key of the task dict the stage's output is kept under
CodeTaskKey(k) ==
    CASE k = 1 -> "data_model" [] k = 2 -> "api_code" [] k = 3 -> "ui_code"
      [] k = 4 -> "tests" [] k = 5 -> "security"

\* the default of the read: {} for the two analyses, "" for the three texts
CodeDefault(k) == IF k \in {1, 5} THEN PyDict(EmptyDict) ELSE PyStr(<<>>)

\* the default error text of the stage
CodeStageError(k) ==
    CASE k = 1 -> <<"Erro na análise do modelo de dados">>
      [] k = 2 -> <<"Erro na geração da API">>
      [] k = 3 -> <<"Erro na geração da UI">>
      [] k = 4 -> <<"Erro na geração de testes">>
      [] k = 5 -> <<"Erro na auditoria de segurança">>

\* the key an agent's action returns its output under
ResultKey(action) ==
    CASE action = "analyze_data_model" -> "data_model"
      [] action = "generate_api"       -> "code"
      [] action = "generate_ui_code"   -> "code"
      [] action = "generate_tests"     -> "tests"
      [] action = "security_audit"     -> "audit"

\* the key of the task an action of generate_code takes its input from:
\* requirements = task.get("requirements", {}), code = task.get("code", "")
ActionReadKey(action) ==
    CASE action = "generate_api"     -> "requirements"
      [] action = "generate_ui_code" -> "requirements"
      [] action = "generate_tests"   -> "code"
      [] action = "security_audit"   -> "code"

\* what the action puts into its prompt as requirements or code
ActionInput(action, task) ==
    Get(task, ActionReadKey(action),
        IF ActionReadKey(action) = "requirements" THEN PyDict(EmptyDict) ELSE PyStr(<<>>))

\* str(uuid.uuid4())
CodeTaskId == "uuid-1"

\* the outputs of a stage's action: a parsed object for the analyses, the
\* answer's text for the others
CodePayloads(k) ==
    IF k \in {1, 5}
      THEN {PyDict([summary |-> <<"resumo">>]), PyDict(NoJsonFound)}
      ELSE {PyStr(<<"def f(): pass">>),
            PyStr(<<"Erro ao gerar resposta: ", "Connection error.">>)}

\* what execute_task of a two_arg agent can do at stage k
CodeStageResults(k) ==
    {Return(PyDict((ResultKey(CodeStageAction(k)) :> p) @@
                   [success |-> TRUE, task_id |-> CodeTaskId]))
        : p \in CodePayloads(k)}
      \cup {Return(PyDict([ success |-> FALSE,
                            error |-> <<"Erro ao analisar resposta: ", "Expecting value">>,
                            task_id |-> CodeTaskId ]))}
      \cup {Return(PyNone)}
      \cup {Raise(e) : e \in AgentExcs}

\* self.<agent>.execute_task(task, "<action>")
CodeAgentCall(kind, k) ==
    IF kind = "as_written"
      THEN {Raise(Exc("TypeError",
                      <<"execute_task() takes 2 positional arguments but 3 were given">>))}
      ELSE CodeStageResults(k)

\* StageFailed for a generate_code that does not test the results
StageFailed_Never(result) == FALSE

\* if not <result>.get("success", False):
StageFailed(result) == ~Get(result, "success", FALSE)

\* the record returned when a stage's result is a failure
CodeFailure(k, result, task) ==
    [ success |-> FALSE, error |-> Get(result, "error", CodeStageError(k)),
      task_id |-> task.task_id ]

\* the record the except branch returns
CodeError(exc, task) ==
    [ success |-> FALSE, error |-> <<"Erro na geração de código: ">> \o StrExc(exc),
      task_id |-> task.task_id, status |-> "erro" ]

\* the record compiled once the five stages are through
Composite(task) ==
    [ success |-> TRUE,
      task_id |-> task.task_id,
      backend |-> [ data_model |-> Get(task, "data_model", PyDict(EmptyDict)),
                    api_code |-> Get(task, "api_code", PyStr(<<>>)) ],
      frontend |-> [ ui_code |-> Get(task, "ui_code", PyStr(<<>>)) ],
      qa |-> [ tests |-> Get(task, "tests", PyStr(<<>>)),
               security |-> Get(task, "security", PyDict(EmptyDict)) ],
      status |-> "concluída" ]

CodeTaskDatas == {[description |-> "Sistema de tarefas"], EmptyDict}

CIdle ==
    /\ c_agents = "as_written"
    /\ c_pc = "idle"
    /\ c_task = EmptyDict
    /\ c_results = <<>>
    /\ c_calls = <<>>
    /\ c_outcome = <<>>

CInit ==
    /\ c_agents \in AgentKinds
    /\ c_pc = "idle"
    /\ c_task = EmptyDict
    /\ c_results = <<>>
    /\ c_calls = <<>>
    /\ c_outcome = <<>>

\* a caller enters generate_code(task_data)
CCall ==
    /\ c_pc = "idle"
    /\ \E td \in CodeTaskDatas :
         c_task' = [task_id |-> CodeTaskId, task_data |-> td, status |-> "iniciada"]
    /\ c_pc' = "stage"
    /\ UNCHANGED <<c_agents, c_results, c_calls, c_outcome>>
    /\ UNCHANGED <<vars, xvars, gvars, avars, kvars, pvars, uvars, mvars>>

\* the stage generate_code is about to run
CodeStage == Len(c_calls) + 1

\* the call the stage makes
CodeCallRecord(k) ==
    [ stage |-> k, agent |-> CodeStageAgent(k), action |-> CodeStageAction(k),
      task |-> c_task ]

\* the stage's agent returns a result that passes the test: its output is
\* kept in the task; after the last stage the composite is returned
CStageSucceeds ==
    /\ c_pc = "stage"
    /\ LET k == CodeStage
       IN \E o \in CodeAgentCall(c_agents, k) :
            /\ o.kind = "return"
            /\ o.value.py = "dict"
            /\ ~StageFailed(o.value.d)
            /\ c_calls' = Append(c_calls, CodeCallRecord(k))
            /\ c_results' = Append(c_results, o.value)
            /\ LET task == (CodeTaskKey(k) :> Get(o.value.d, CodeReadKey(k), CodeDefault(k)))
                              @@ c_task
               IN /\ c_task' = task
                  /\ IF k = NumCodeStages
                       THEN /\ c_outcome' = <<Return(Composite(task))>>
                            /\ c_pc' = "done"
                       ELSE /\ c_outcome' = c_outcome
                            /\ c_pc' = "stage"
    /\ UNCHANGED c_agents
    /\ UNCHANGED <<vars, xvars, gvars, avars, kvars, pvars, uvars, mvars>>

\* the stage's agent returns a result that fails the test: generate_code
\* returns the failure
CStageFails ==
    /\ c_pc = "stage"
    /\ LET k == CodeStage
       IN \E o \in CodeAgentCall(c_agents, k) :
            /\ o.kind = "return"
            /\ o.value.py = "dict"
            /\ StageFailed(o.value.d)
            /\ c_calls' = Append(c_calls, CodeCallRecord(k))
            /\ c_results' = Append(c_results, o.value)
            /\ c_outcome' = <<Return(CodeFailure(k, o.value.d, c_task))>>
    /\ c_pc' = "done"
    /\ UNCHANGED <<c_agents, c_task>>
    /\ UNCHANGED <<vars, xvars, gvars, avars, kvars, pvars, uvars, mvars>>

\* the call raises, or returns None and the test of the result raises: the
\* except branch returns the error record
CStageRaises ==
    /\ c_pc = "stage"
    /\ LET k == CodeStage
       IN \E o \in CodeAgentCall(c_agents, k) :
            /\ \/ o.kind = "raise"
               \/ o.kind = "return" /\ o.value.py # "dict"
            /\ c_calls' = Append(c_calls, CodeCallRecord(k))
            /\ IF o.kind = "raise"
                 THEN /\ c_results' = c_results
                      /\ c_outcome' = <<Return(CodeError(o.exc, c_task))>>
                 ELSE /\ c_results' = Append(c_results, o.value)
                      /\ c_outcome' =
                            <<Return(CodeError(
                                Exc("AttributeError",
                                    <<"'NoneType' object has no attribute 'get'">>),
                                c_task))>>
    /\ c_pc' = "done"
    /\ UNCHANGED <<c_agents, c_task>>
    /\ UNCHANGED <<vars, xvars, gvars, avars, kvars, pvars, uvars, mvars>>

CNext == CCall \/ CStageSucceeds \/ CStageFails \/ CStageRaises

(***************************************************************************)
(* process_task of the in-memory Orchestrator (agents/orchestrator.py):    *)
(* four stages, each agent.execute_task(task, action) followed by a test   *)
(* of the result.  The agents are of the two kinds generate_code is        *)
(* modelled with.                                                          *)
(***************************************************************************)
NumTaskStages == 4

TaskStageAgent(k) ==
    CASE k = 1 -> "front" [] k = 2 -> "back" [] k = 3 -> "qa" [] k = 4 -> "front"

\* the action tag process_task passes as the second argument
TaskStageAction(k) ==
    CASE k = 1 -> "analyze_task" [] k = 2 -> "process_task"
      [] k = 3 -> "verify_result" [] k = 4 -> "prepare_response"

\* the key of the task dict the stage's result is kept under
TaskStageKey(k) ==
    CASE k = 1 -> "front_analysis" [] k = 2 -> "back_result"
      [] k = 3 -> "qa_result" [] k = 4 -> "final_result"

\* the status the task dict gets once the stage is through
TaskStageStatus(k) ==
    CASE k = 1 -> "analisada_front" [] k = 2 -> "processada_back"
      [] k = 3 -> "verificada_qa" [] k = 4 -> "concluída"

\* the default error text of the stage
TaskStageError(k) ==
    CASE k = 1 -> <<"Erro na análise de front-end">>
      [] k = 2 -> <<"Erro no processamento de back-end">>
      [] k = 3 -> <<"Erro na verificação de QA">>
      [] k = 4 -> <<"Erro na preparação da resposta final">>

\* the key the stage's action returns its output under
TaskResultKey(k) ==
    CASE k = 1 -> "analysis" [] k = 2 -> "analysis" [] k = 3 -> "verification"
      [] k = 4 -> "response"

TaskId == "uuid-2"

\* what execute_task of a two_arg agent can do at stage k: the action's
\* success record, its parse failure, a record with neither flag nor error
TaskStageResults(k) ==
    {Return(PyDict((TaskResultKey(k) :> PyDict([summary |-> <<"resumo">>])) @@
                   [success |-> TRUE, task_id |-> TaskId, summary |-> <<"resumo">>])),
     Return(PyDict((TaskResultKey(k) :> PyDict(NoJsonFound)) @@
                   [success |-> TRUE, task_id |-> TaskId, summary |-> <<"concluído">>])),
     Return(PyDict([ success |-> FALSE,
                     error |-> <<"Erro ao analisar resposta: ", "Expecting value">>,
                     task_id |-> TaskId ])),
     Return(PyDict(EmptyDict))}
      \cup {Raise(e) : e \in AgentExcs}

\* self.<agent>.execute_task(task, "<action>")
TaskAgentCall(kind, k) ==
    IF kind = "as_written"
      THEN {Raise(Exc("TypeError",
                      <<"execute_task() takes 2 positional arguments but 3 were given">>))}
      ELSE TaskStageResults(k)

\* ResultFailed for a process_task that takes a result for failed by its
\* error key
ResultFailed_ErrorKey(result) == "error" \in DOMAIN result

\* if not <result>.get("success", False):
ResultFailed(result) == ~Get(result, "success", FALSE)

\* the record returned when a stage's result is a failure
TaskFailure(k, result, task) ==
    [ success |-> FALSE, error |-> Get(result, "error", TaskStageError(k)),
      task_id |-> task.task_id ]

\* the record the except branch returns
TaskError(exc, task) ==
    [ success |-> FALSE, error |-> <<"Erro no processamento: ">> \o StrExc(exc),
      task_id |-> task.task_id, status |-> "erro" ]

\* what the stage keeps of its result: the analysis alone at stage 1, the
\* whole result at the others
TaskKept(k, result) ==
    IF k = 1 THEN Get(result.d, "analysis", PyDict(EmptyDict)) ELSE result

\* the record returned once the four stages are through
TaskSuccess(task) ==
    [ success |-> TRUE, task_id |-> task.task_id,
      result |-> Get(task.final_result.d, "response", PyDict(EmptyDict)),
      status |-> "concluída" ]

PIdle ==
    /\ p_agents = "as_written"
    /\ p_pc = "idle"
    /\ p_task = EmptyDict
    /\ p_results = <<>>
    /\ p_calls = <<>>
    /\ p_outcome = <<>>

PInit ==
    /\ p_agents \in AgentKinds
    /\ p_pc = "idle"
    /\ p_task = EmptyDict
    /\ p_results = <<>>
    /\ p_calls = <<>>
    /\ p_outcome = <<>>

\* a caller enters process_task(task_data)
PCall ==
    /\ p_pc = "idle"
    /\ \E td \in CodeTaskDatas :
         p_task' = [task_id |-> TaskId, task_data |-> td, status |-> "iniciada"]
    /\ p_pc' = "stage"
    /\ UNCHANGED <<p_agents, p_results, p_calls, p_outcome>>
    /\ UNCHANGED <<vars, xvars, gvars, avars, kvars, cvars, uvars, mvars>>

\* the stage process_task is about to run
TaskStage == Len(p_calls) + 1

\* the call the stage makes, and what came of it
TaskCallRecord(k, o) ==
    [ stage |-> k, agent |-> TaskStageAgent(k), action |-> TaskStageAction(k),
      task |-> p_task, out |-> o ]

\* the stage's agent returns a result that passes the test: it is kept in
\* the task and the status moves on; after the last stage the success
\* record is returned
PStageSucceeds ==
    /\ p_pc = "stage"
    /\ LET k == TaskStage
       IN \E o \in TaskAgentCall(p_agents, k) :
            /\ o.kind = "return"
            /\ ~ResultFailed(o.value.d)
            /\ p_calls' = Append(p_calls, TaskCallRecord(k, o))
            /\ p_results' = Append(p_results, o.value)
            /\ LET task == (TaskStageKey(k) :> TaskKept(k, o.value))
                              @@ [p_task EXCEPT !.status = TaskStageStatus(k)]
               IN /\ p_task' = task
                  /\ IF k = NumTaskStages
                       THEN /\ p_outcome' = <<Return(TaskSuccess(task))>>
                            /\ p_pc' = "done"
                       ELSE /\ p_outcome' = p_outcome
                            /\ p_pc' = "stage"
    /\ UNCHANGED p_agents
    /\ UNCHANGED <<vars, xvars, gvars, avars, kvars, cvars, uvars, mvars>>

\* the stage's agent returns a result that fails the test: process_task
\* returns the failure
PStageFails ==
    /\ p_pc = "stage"
    /\ LET k == TaskStage
       IN \E o \in TaskAgentCall(p_agents, k) :
            /\ o.kind = "return"
            /\ ResultFailed(o.value.d)
            /\ p_calls' = Append(p_calls, TaskCallRecord(k, o))
            /\ p_results' = Append(p_results, o.value)
            /\ p_outcome' = <<Return(TaskFailure(k, o.value.d, p_task))>>
    /\ p_pc' = "done"
    /\ UNCHANGED <<p_agents, p_task>>
    /\ UNCHANGED <<vars, xvars, gvars, avars, kvars, cvars, uvars, mvars>>

\* the call raises: the except branch returns the error record
PStageRaises ==
    /\ p_pc = "stage"
    /\ LET k == TaskStage
       IN \E o \in TaskAgentCall(p_agents, k) :
            /\ o.kind = "raise"
            /\ p_calls' = Append(p_calls, TaskCallRecord(k, o))
            /\ p_outcome' = <<Return(TaskError(o.exc, p_task))>>
    /\ p_pc' = "done"
    /\ UNCHANGED <<p_agents, p_task, p_results>>
    /\ UNCHANGED <<vars, xvars, gvars, avars, kvars, cvars, uvars, mvars>>

PNext == PCall \/ PStageSucceeds \/ PStageFails \/ PStageRaises


(***************************************************************************)
(* AuthManager (src/src/auth/auth_manager.py) and Session                  *)
(* (src/src/auth/session.py).  Time is counted in hours: both time.time()  *)
(* and datetime.utcnow() read the one clock u_now.  A token is what        *)
(* jwt.encode makes of a payload and a key; jwt.decode gives the payload   *)
(* back when the key is the signing key and exp has not been reached.      *)
(***************************************************************************)
\* Session.max_idle_time: 3600 seconds
MaxIdleTime == 1

\* timedelta(days=1)
TokenLifetime == 24

SecretKey == "default_secret_key_change_in_production"

\* user.to_dict() of the users authenticate lets in; the second has no role
AuthUsers ==
    {[id |-> 1, username |-> "arthur", role |-> "admin"], [id |-> 2, username |-> "bia"]}

\* the payload create_token signs
TokenPayload(user_data, now) ==
    [ sub |-> Str(user_data.id),
      username |-> user_data.username,
      role |-> Get(user_data, "role", "user"),
      exp |-> now + TokenLifetime,
      iat |-> now ]

\* jwt.encode(payload, key, algorithm='HS256')
JwtEncode(payload, key) == [payload |-> payload, key |-> key]

\* jwt.decode(token, key, algorithms=['HS256']) at the time now
JwtDecode(token, key, now) ==
    IF token.key # key
      THEN Raise(Exc("InvalidSignatureError", <<"Signature verification failed">>))
    ELSE IF token.payload.exp <= now
      THEN Raise(Exc("ExpiredSignatureError", <<"Signature has expired">>))
    ELSE Return(token.payload)

\* the exceptions except jwt.InvalidTokenError catches once
\* except jwt.ExpiredSignatureError has been passed
IsInvalidTokenError(exc) == exc.type \in {"InvalidSignatureError", "DecodeError"}

\* a token signed with another key
ForeignToken == JwtEncode(TokenPayload([id |-> 1, username |-> "arthur"], 0), "another key")

\* Session(user_id=..., token=...)
NewSession(user_id, token, now) ==
    [ user_id |-> user_id, token |-> token, created_at |-> now, last_access |-> now,
      max_idle_time |-> MaxIdleTime ]

\* IsExpired for a session that lapses after twice its idle time
IsExpired_TwiceIdle(session, now) == (now - session.last_access) > 2 * session.max_idle_time

\* Session.is_expired
IsExpired(session, now) == (now - session.last_access) > session.max_idle_time

\* Session.update_last_access
UpdateLastAccess(session, now) == [session EXCEPT !.last_access = now]

\* del sessions[token]
Del(sessions, token) == [t \in (DOMAIN sessions) \ {token} |-> sessions[t]]

\* CreateToken for a manager that signs every token for the user of id 1
CreateToken_SubOfFirstUser(user_data, now) ==
    JwtEncode([TokenPayload(user_data, now) EXCEPT !.sub = Str(1)], SecretKey)

\* the token create_token returns
CreateToken(user_data, now) == JwtEncode(TokenPayload(user_data, now), SecretKey)

\* self.sessions once create_token has stored the session
SessionsAfterCreate(sessions, user_data, token, now) ==
    (token :> NewSession(user_data.id, token, now)) @@ sessions

\* validate_token: the tuple it returns and self.sessions as it leaves it
ValidateToken(sessions, token, now) ==
    IF token \notin DOMAIN sessions
      THEN [ out |-> <<FALSE, PyNone, PyStr(<<"Sessão inválida ou expirada">>)>>,
             sessions |-> sessions ]
    ELSE IF IsExpired(sessions[token], now)
      THEN [ out |-> <<FALSE, PyNone, PyStr(<<"Sessão expirada">>)>>,
             sessions |-> Del(sessions, token) ]
    ELSE LET decoded == JwtDecode(token, SecretKey, now)
         IN IF decoded.kind = "return"
              THEN [ out |-> <<TRUE, PyDict(decoded.value), PyNone>>,
                     sessions |-> [sessions EXCEPT ![token] = UpdateLastAccess(@, now)] ]
            ELSE IF decoded.exc.type = "ExpiredSignatureError"
              THEN [ out |-> <<FALSE, PyNone, PyStr(<<"Token expirado">>)>>,
                     sessions |-> Del(sessions, token) ]
            ELSE [ out |-> <<FALSE, PyNone, PyStr(<<"Token inválido">>)>>,
                   sessions |-> sessions ]

\* Logout for a manager that answers True and keeps the session
Logout_KeepsSession(sessions, token) ==
    [ out |-> token \in DOMAIN sessions, sessions |-> sessions ]

\* logout: what it returns and self.sessions as it leaves it
Logout(sessions, token) ==
    IF token \in DOMAIN sessions
      THEN [ out |-> TRUE, sessions |-> Del(sessions, token) ]
      ELSE [ out |-> FALSE, sessions |-> sessions ]

\* the values of required_role: None, the empty string, a role's name
RequiredRoles == {PyNone, PyStr(""), PyStr("admin"), PyStr("user")}

\* the truth value of required_role in "if required_role and ..."
RoleRequired(required_role) == required_role.py = "str" /\ required_role.s # ""

AccessDenied(required_role) ==
    PyStr(<<"Acesso negado. Função '", required_role.s, "' necessária.">>)

\* RequireAuth for a manager that lets every valid token through
RequireAuth_IgnoresRole(sessions, token, required_role, now) ==
    ValidateToken(sessions, token, now)

\* require_auth: the tuple it returns and self.sessions as it leaves it
RequireAuth(sessions, token, required_role, now) ==
    LET v == ValidateToken(sessions, token, now)
    IN IF ~v.out[1]
         THEN [out |-> <<FALSE, PyNone, v.out[3]>>, sessions |-> v.sessions]
       ELSE IF RoleRequired(required_role) /\ v.out[2].d.role # required_role.s
         THEN [out |-> <<FALSE, PyNone, AccessDenied(required_role)>>,
               sessions |-> v.sessions]
       ELSE [out |-> <<TRUE, v.out[2], PyNone>>, sessions |-> v.sessions]

\* the two runs of the clock: a short one in which several tokens are
\* issued, a long one in which one token lives past its exp
AuthBounds ==
    {[clock |-> ShortClock, tokens |-> MaxIssued], [clock |-> LongClock, tokens |-> 1]}

NoCall == [op |-> "none"]

UIdle ==
    /\ u_bound = [clock |-> 0, tokens |-> 0]
    /\ u_now = 0
    /\ u_sessions = <<>>
    /\ u_issued = <<>>
    /\ u_last = NoCall
    /\ u_ended = {}
    /\ u_lapsed = {}

\* AuthManager(): self.sessions = {}
UInit ==
    /\ u_bound \in AuthBounds
    /\ u_now = 0
    /\ u_sessions = <<>>
    /\ u_issued = <<>>
    /\ u_last = NoCall
    /\ u_ended = {}
    /\ u_lapsed = {}

\* the tokens a client can present: those issued so far and a foreign one
Presented == {u_issued[i] : i \in DOMAIN u_issued} \cup {ForeignToken}

\* the session a call finds under the token when it starts
Found(token) == IF token \in DOMAIN u_sessions THEN PyDict(u_sessions[token]) ELSE PyNone

\* the token's session is there and has been idle for longer than its
\* max_idle_time
IdleTooLong(token) ==
    /\ token \in DOMAIN u_sessions
    /\ u_now - u_sessions[token].last_access > u_sessions[token].max_idle_time

\* an hour passes, and the call made last is over
UTick ==
    /\ u_now < u_bound.clock
    /\ u_now' = u_now + 1
    /\ u_last' = NoCall
    /\ UNCHANGED <<u_bound, u_sessions, u_issued, u_ended, u_lapsed>>
    /\ UNCHANGED <<vars, xvars, gvars, avars, kvars, cvars, pvars, mvars>>

\* token = create_token(user_data)
UCreateToken ==
    /\ Len(u_issued) < u_bound.tokens
    /\ \E user_data \in AuthUsers :
         LET token == CreateToken(user_data, u_now)
         IN /\ u_sessions' = SessionsAfterCreate(u_sessions, user_data, token, u_now)
            /\ u_issued' = Append(u_issued, token)
            /\ u_last' = [ op |-> "create_token", user_data |-> user_data, at |-> u_now,
                           out |-> token ]
            /\ u_ended' = u_ended \ {token}
    /\ UNCHANGED <<u_bound, u_now, u_lapsed>>
    /\ UNCHANGED <<vars, xvars, gvars, avars, kvars, cvars, pvars, mvars>>

\* validate_token(token)
UValidateToken ==
    /\ \E token \in Presented :
         LET v == ValidateToken(u_sessions, token, u_now)
         IN /\ u_sessions' = v.sessions
            /\ u_last' = [ op |-> "validate_token", token |-> token, at |-> u_now,
                           found |-> Found(token), before |-> u_sessions,
                           out |-> v.out ]
            /\ u_lapsed' = IF IdleTooLong(token) THEN u_lapsed \cup {token} ELSE u_lapsed
    /\ UNCHANGED <<u_bound, u_now, u_issued, u_ended>>
    /\ UNCHANGED <<vars, xvars, gvars, avars, kvars, cvars, pvars, mvars>>

\* logout(token)
ULogout ==
    /\ \E token \in Presented :
         LET l == Logout(u_sessions, token)
         IN /\ u_sessions' = l.sessions
            /\ u_last' = [ op |-> "logout", token |-> token, at |-> u_now,
                           found |-> Found(token), before |-> u_sessions, out |-> l.out ]
            /\ u_ended' = u_ended \cup {token}
    /\ UNCHANGED <<u_bound, u_now, u_issued, u_lapsed>>
    /\ UNCHANGED <<vars, xvars, gvars, avars, kvars, cvars, pvars, mvars>>

\* require_auth(token, required_role)
URequireAuth ==
    /\ \E token \in Presented, required_role \in RequiredRoles :
         LET r == RequireAuth(u_sessions, token, required_role, u_now)
         IN /\ u_sessions' = r.sessions
            /\ u_last' = [ op |-> "require_auth", token |-> token,
                           required_role |-> required_role, at |-> u_now,
                           found |-> Found(token), before |-> u_sessions,
                           out |-> r.out ]
            /\ u_lapsed' = IF IdleTooLong(token) THEN u_lapsed \cup {token} ELSE u_lapsed
    /\ UNCHANGED <<u_bound, u_now, u_issued, u_ended>>
    /\ UNCHANGED <<vars, xvars, gvars, avars, kvars, cvars, pvars, mvars>>

UNext == UTick \/ UCreateToken \/ UValidateToken \/ ULogout \/ URequireAuth

(***************************************************************************)
(* A2AHandler (src/src/orchestrator/protocols/a2a_handler.py): messages    *)
(* are dicts; the n-th message built gets the n-th identifier uuid4 hands  *)
(* out and the time it was built at.                                       *)
(***************************************************************************)
\* str(uuid.uuid4()) of the n-th message
MessageId(n) == [uuid |-> n]

\* datetime.utcnow().isoformat() when the n-th message is built
Timestamp(n) == [iso |-> n]

\* create_message(sender, receiver, content, message_type) as the n-th message
CreateMessage(sender, receiver, content, message_type, n) ==
    [ id |-> MessageId(n), timestamp |-> Timestamp(n), sender |-> sender,
      receiver |-> receiver, type |-> message_type, content |-> content ]

\* CreateResponse for a handler that keeps the original's direction
CreateResponse_SameDirection(original_message, content, status, n) ==
    [ id |-> MessageId(n), timestamp |-> Timestamp(n),
      sender |-> original_message["sender"], receiver |-> original_message["receiver"],
      type |-> "response", in_reply_to |-> original_message["id"], status |-> status,
      content |-> content ]

\* create_response(original_message, content, status) as the n-th message
CreateResponse(original_message, content, status, n) ==
    [ id |-> MessageId(n), timestamp |-> Timestamp(n),
      sender |-> original_message["receiver"], receiver |-> original_message["sender"],
      type |-> "response", in_reply_to |-> original_message["id"], status |-> status,
      content |-> content ]

\* the keys create_response reads from the original
ResponseReads == {"receiver", "sender", "id"}

RequiredFields == <<"id", "timestamp", "sender", "receiver", "type", "content">>

ValidTypes == <<"request", "response", "notification">>

\* x in <list>
InList(x, list) == \E i \in DOMAIN list : list[i] = x

\* for field in required_fields: if field not in message: return False
RECURSIVE HasFieldsFrom(_, _)
HasFieldsFrom(message, i) ==
    IF i > Len(RequiredFields) THEN TRUE
    ELSE IF RequiredFields[i] \notin DOMAIN message THEN FALSE
    ELSE HasFieldsFrom(message, i + 1)

\* validate_message(message)
ValidateMessage(message) ==
    IF ~HasFieldsFrom(message, 1) THEN FALSE
    ELSE IF ~InList(message["type"], ValidTypes) THEN FALSE
    ELSE IF message["type"] = "response" /\ "in_reply_to" \notin DOMAIN message THEN FALSE
    ELSE IF message["type"] = "response" /\ "status" \notin DOMAIN message THEN FALSE
    ELSE TRUE

\* the arguments the callers pass
MessageParties == {"front_agent", "back_agent"}
MessageContents == {[text |-> "oi"]}
MessageTypes == {"request", "response", "notification", "broadcast"}
ResponseStatuses == {"success", "error"}

\* the dict without one of its keys
Without(message, field) == [k \in (DOMAIN message) \ {field} |-> message[k]]

\* the dicts a caller hands to validate_message: a message as it was built,
\* one built message with a key taken out, one with its type overwritten
Handed ==
    LET built == {m_messages[i] : i \in DOMAIN m_messages}
    IN built \cup {Without(m, f) : m \in built, f \in {"id", "timestamp", "sender",
                                                       "receiver", "type", "content",
                                                       "in_reply_to", "status"}}
             \cup {[m EXCEPT !["type"] = "broadcast"] : m \in built}

MIdle ==
    /\ m_messages = <<>>
    /\ m_checked = <<>>

\* A2AHandler()
MInit ==
    /\ m_messages = <<>>
    /\ m_checked = <<>>

\* message = create_message(sender, receiver, content, message_type)
MCreateMessage ==
    /\ Len(m_messages) < MaxMessages
    /\ \E sender \in MessageParties, receiver \in MessageParties,
          content \in MessageContents, message_type \in MessageTypes :
         m_messages' = Append(m_messages,
                              CreateMessage(sender, receiver, content, message_type,
                                            Len(m_messages) + 1))
    /\ UNCHANGED m_checked
    /\ UNCHANGED <<vars, xvars, gvars, avars, kvars, cvars, pvars, uvars>>

\* response = create_response(original_message, content, status)
MCreateResponse ==
    /\ Len(m_messages) < MaxMessages
    /\ \E i \in DOMAIN m_messages, content \in MessageContents,
          status \in ResponseStatuses :
         m_messages' = Append(m_messages,
                              CreateResponse(m_messages[i], content, status,
                                             Len(m_messages) + 1))
    /\ UNCHANGED m_checked
    /\ UNCHANGED <<vars, xvars, gvars, avars, kvars, cvars, pvars, uvars>>

\* validate_message(message)
MValidateMessage ==
    /\ Len(m_checked) < MaxChecks
    /\ \E message \in Handed :
         m_checked' = Append(m_checked,
                             [message |-> message, out |-> ValidateMessage(message)])
    /\ UNCHANGED m_messages
    /\ UNCHANGED <<vars, xvars, gvars, avars, kvars, cvars, pvars, uvars>>

MNext == MCreateMessage \/ MCreateResponse \/ MValidateMessage

(***************************************************************************)
(* Specifications.  Each is one component running, the others at rest.     *)
(***************************************************************************)
PipelineIdle == Init /\ agents = NoAgents

\* the state after construction, when the component running is the pipeline
InitPipeline == Init /\ XIdle /\ GIdle /\ AIdle /\ KIdle /\ CIdle /\ PIdle /\ UIdle /\ MIdle

Spec == InitPipeline /\ [][Next]_allvars

\* the runs in which nothing raises: every database call succeeds and every
\* agent returns a result
NextNoRaise ==
    \E r \in Runs :
        \/ Call(r)
        \/ CreateTask(r)
        \/ ExecStage(r)
        \/ LogStage(r)
        \/ UpdateCompleted(r)

SpecNoRaise == InitPipeline /\ [][NextNoRaise]_allvars

\* process_task called by several request threads at once: every helper of
\* database.py opens its own connection and commits one statement, and an
\* agent call touches nothing of the Orchestrator, so each is one step; the
\* steps of the calls interleave freely
InitConcurrent ==
    /\ agents = RegExact
    /\ tasks = <<>>
    /\ interactions = <<>>
    /\ statusLog = <<>>
    /\ pc = [r \in ConcRuns |-> "idle"]
    /\ task_data = [r \in ConcRuns |-> [description |-> "..."]]
    /\ task_id = [r \in ConcRuns |-> 0]
    /\ results = [r \in ConcRuns |-> <<>>]
    /\ caught = [r \in ConcRuns |-> <<>>]
    /\ calls = [r \in ConcRuns |-> <<>>]
    /\ outcome = [r \in ConcRuns |-> <<>>]
    /\ XIdle /\ GIdle /\ AIdle /\ KIdle /\ CIdle /\ PIdle /\ UIdle /\ MIdle

\* a request thread enters process_task(task_data), whatever the others are at
CallConcurrent(r) ==
    /\ pc[r] = "idle"
    /\ task_data' = [task_data EXCEPT ![r] = [title |-> "Login form", description |-> "...",
                                               user_id |-> r]]
    /\ pc' = [pc EXCEPT ![r] = "create"]
    /\ UNCHANGED <<agents, tasks, interactions, statusLog, task_id, results,
                   caught, calls, outcome>>
    /\ UNCHANGED <<xvars, gvars, avars, kvars, cvars, pvars, uvars, mvars>>

NextConcurrent ==
    \E r \in ConcRuns :
        \/ CallConcurrent(r)
        \/ CreateTask(r)
        \/ ExecStage(r)
        \/ ExecStageRaises(r)
        \/ LogStage(r)
        \/ UpdateCompleted(r)
        \/ ExceptLog(r)
        \/ ExceptUpdate(r)

SpecConcurrent == InitConcurrent /\ [][NextConcurrent]_allvars

\* extract_response alone
InitExtract == PipelineIdle /\ XInit /\ GIdle /\ AIdle /\ KIdle /\ CIdle /\ PIdle /\ UIdle /\ MIdle

SpecExtract == InitExtract /\ [][XNext]_allvars

\* generate_response alone
InitGen == PipelineIdle /\ XIdle /\ GInit /\ AIdle /\ KIdle /\ CIdle /\ PIdle /\ UIdle /\ MIdle

SpecGen == InitGen /\ [][GNext]_allvars

\* one agent's execute_task alone
InitAgent == PipelineIdle /\ XIdle /\ GIdle /\ AInit /\ KIdle /\ CIdle /\ PIdle /\ UIdle /\ MIdle

SpecAgent == InitAgent /\ [][ANext]_allvars

\* create_context alone
InitContext == PipelineIdle /\ XIdle /\ GIdle /\ AIdle /\ KInit /\ CIdle /\ PIdle /\ UIdle /\ MIdle

SpecContext == InitContext /\ [][KNext]_allvars

\* generate_code alone
InitCode == PipelineIdle /\ XIdle /\ GIdle /\ AIdle /\ KIdle /\ CInit /\ PIdle /\ UIdle /\ MIdle

SpecCode == InitCode /\ [][CNext]_allvars

\* process_task of the in-memory Orchestrator alone
InitTask == PipelineIdle /\ XIdle /\ GIdle /\ AIdle /\ KIdle /\ CIdle /\ PInit /\ UIdle /\ MIdle

SpecTask == InitTask /\ [][PNext]_allvars

\* one AuthManager alone
InitAuth == PipelineIdle /\ XIdle /\ GIdle /\ AIdle /\ KIdle /\ CIdle /\ PIdle /\ UInit /\ MIdle

SpecAuth == InitAuth /\ [][UNext]_allvars

\* one A2AHandler alone
InitA2A == PipelineIdle /\ XIdle /\ GIdle /\ AIdle /\ KIdle /\ CIdle /\ PIdle /\ UIdle /\ MInit

SpecA2A == InitA2A /\ [][MNext]_allvars

(***************************************************************************)
(* Vocabulary of the properties.                                           *)
(***************************************************************************)
\* the interaction entries of one task, in insertion order
TaskLog(id) == SelectSeq(interactions, LAMBDA e : e.task_id = id)

AgentNames(log) == [i \in 1..Len(log) |-> log[i].agent_name]

Ended(r) == pc[r] = "done"
HasReturned(r) == Ended(r) /\ outcome[r][1].kind = "return"

AllSucceeded(r) ==
    /\ Len(results[r]) = NumStages
    /\ \A k \in 1..NumStages : results[r][k].success

\* stage k is the first stage of run r whose result has success = false
FirstFailure(r, k) ==
    /\ k \in 1..Len(results[r])
    /\ ~results[r][k].success
    /\ \A j \in 1..(k - 1) : results[r][j].success

PipelineLogOrder == <<"front_agent", "back_agent", "qa_agent", "front_agent">>

LaterEntries(id, k) ==
    SelectSeq(TaskLog(id),
              LAMBDA e : \E j \in (k + 1)..NumStages : e.message[1] = StageLogPrefix(j)[1])

\* C2: if stage k is the first whose result has success = false, execution
\* halts there: no agent of a later stage is invoked, no interaction entry of a
\* later stage exists, and once the call has ended the status is "failed".
C2_FailFast ==
    \A r \in Runs : \A k \in 1..NumStages :
        FirstFailure(r, k) =>
            /\ \A i \in 1..Len(calls[r]) : calls[r][i].stage <= k
            /\ LaterEntries(task_id[r], k) = <<>>
            /\ Ended(r) => tasks[task_id[r]].status = "failed"

(***************************************************************************)
(* C3                                                                      *)
(***************************************************************************)
\* C3: when a stage's result is success = false with error e, process_task
\* returns {success: false, error: e, status: "failed"}, and no entry of a later
\* stage is logged.
C3_FailureRecord ==
    \A r \in Runs : \A k \in 1..NumStages :
        (Ended(r) /\ FirstFailure(r, k)) =>
            /\ outcome[r][1].kind = "return"
            /\ outcome[r][1].value =
                  [success |-> FALSE, error |-> results[r][k].error, status |-> "failed"]
            /\ LaterEntries(task_id[r], k) = <<>>

(***************************************************************************)
(* C4                                                                      *)
(***************************************************************************)
\* C4: no fault escapes process_task: whichever collaborator call raises, the
\* call ends by returning a record with a success flag, and with an error
\* whenever success is false.
C4_NoFaultEscapes ==
    \A r \in Runs :
        Ended(r) =>
            /\ outcome[r][1].kind = "return"
            /\ "success" \in DOMAIN outcome[r][1].value
            /\ ~outcome[r][1].value.success => "error" \in DOMAIN outcome[r][1].value

(***************************************************************************)
(* C5                                                                      *)
(***************************************************************************)
TerminalStatuses == {"completed", "failed"}

\* the terminal statuses written to a task's row, in order
TerminalWrites(id) == SelectSeq(statusLog[id], LAMBDA st : st \in TerminalStatuses)

\* C5: every run brings its task to a terminal status exactly once: when the
\* run has ended exactly one terminal status has been written to the task's row,
\* and it is the row's status.
C5_TerminalExactlyOnce ==
    \A r \in Runs :
        (Ended(r) /\ task_id[r] # 0) =>
            /\ Len(TerminalWrites(task_id[r])) = 1
            /\ tasks[task_id[r]].status \in TerminalStatuses

(***************************************************************************)
(* C6                                                                      *)
(***************************************************************************)
\* the statuses after the one the task is created with
StagePath == <<"front_analyzed", "back_processed", "qa_verified", "completed">>

\* the number of stages of run r that succeeded before the first that did not
SucceededBefore(r) ==
    Cardinality({k \in 1..Len(results[r]) : \A j \in 1..k : results[r][j].success})

\* C6: after the status a task is created with, the statuses it takes are
\* exactly front_analyzed, back_processed, qa_verified, completed when every
\* stage succeeds (one per stage), and a prefix of that sequence followed by
\* failed when a stage fails.
C6_StatusSequence ==
    \A r \in Runs :
        (Ended(r) /\ task_id[r] # 0) =>
            LET written == Tail(statusLog[task_id[r]])
            IN IF AllSucceeded(r)
                 THEN written = StagePath
                 ELSE written = SubSeq(StagePath, 1, SucceededBefore(r)) \o <<"failed">>

(***************************************************************************)
(* C7                                                                      *)
(***************************************************************************)
PipelineAgents  == <<"front", "back", "qa", "front">>
PipelineActions == <<"analyze_task", "process_task", "verify_result", "prepare_response">>

StageOutputKey(j) ==
    CASE j = 1 -> "front_analysis" [] j = 2 -> "back_result" [] j = 3 -> "qa_result"

\* C8: when stage k's execute_task is called, the state passed to it holds the
\* output of every earlier successful stage under its stage-named key, and that
\* output is the one the stage returned for the rest of the run.
C8_AccumulatedState ==
    \A r \in Runs : \A i \in 1..Len(calls[r]) :
        \A j \in 1..(calls[r][i].stage - 1) :
            results[r][j].success =>
                /\ StageOutputKey(j) \in DOMAIN calls[r][i].task
                /\ calls[r][i].task[StageOutputKey(j)] = results[r][j]

(***************************************************************************)
(* C9                                                                      *)
(***************************************************************************)
\* C9: when a stage fails, at return the task's log is the entries of the
\* stages that succeeded before it, in stage order, followed by exactly one
\* failure entry.
C9_LogOnFailure ==
    \A r \in Runs : \A k \in 1..NumStages :
        (Ended(r) /\ FirstFailure(r, k)) =>
            LET log == TaskLog(task_id[r])
            IN /\ Len(log) = k
               /\ \A j \in 1..(k - 1) :
                     log[j] = InteractionRow(task_id[r], StageLogName(j),
                                             StageMessage(j, results[r][j]))
               /\ log[k].agent_name = "system"

(***************************************************************************)
(* C10                                                                     *)
(***************************************************************************)
\* C10: "completed" is written to a task only after all four stages have
\* returned success = true, and that write stores the serialized result of the
\* final stage as the task's output.
C10_CompletedOnlyAfterSuccess ==
    \A r \in Runs :
        (task_id[r] # 0 /\ tasks[task_id[r]].status = "completed") =>
            /\ AllSucceeded(r)
            /\ tasks[task_id[r]].output_gerado = <<Str(results[r][NumStages])>>

(***************************************************************************)
(* C11                                                                     *)
(***************************************************************************)
\* C11: when every stage succeeds (and nothing raised), process_task returns a
\* record with success = true, status "completed", the id of the task it
\* created, and the final front-end stage's result.
C11_SuccessRecord ==
    \A r \in Runs :
        (HasReturned(r) /\ AllSucceeded(r) /\ caught[r] = <<>>) =>
            LET ret == outcome[r][1].value
            IN /\ Get(ret, "success", FALSE) = TRUE
               /\ Get(ret, "status", "") = "completed"
               /\ Get(ret, "task_id", 0) = task_id[r]
               /\ Get(ret, "result", EmptyDict) = results[r][NumStages]

(***************************************************************************)
(* C12                                                                     *)
(***************************************************************************)
\* the names a caller looks an agent up by: the pipeline's keys, the role tags,
\* the class names, a role tag in capitals, and a name no agent has
LookupKeys == {K_front, K_back, K_qa, N_front, N_back, N_qa, C_front, C_back, C_qa,
               <<"Q", "A">>, <<"x">>}

\* the registered name and the key match by case-insensitive substring
NameMatches(name, key) ==
    Contains(Lower(key), Lower(name)) \/ Contains(Lower(name), Lower(key))

\* C12: for every name looked up: an agent registered under exactly that name
\* is the one used; otherwise an agent whose registered name matches it by
\* case-insensitive substring is used; and the "agent not found" error is
\* produced if and only if no registered name matches either way.
C12_LookupContract ==
    \A key \in LookupKeys :
        LET l       == Lookup(agents, key)
            items   == agents.items
            exact   == {i \in 1..Len(items) : items[i].name = key}
            partial == {i \in 1..Len(items) : NameMatches(items[i].name, key)}
            notFound == /\ l.kind = "raise"
                        /\ l.exc = Exc("ValueError", <<"Agente não encontrado: ">> \o key)
        IN /\ exact # {} =>
                l.kind = "agent" /\ \E i \in exact : l.agent = items[i].agent
           /\ (exact = {} /\ partial # {}) =>
                l.kind = "agent" /\ \E i \in partial : l.agent = items[i].agent
           /\ notFound <=> (exact = {} /\ partial = {})

(***************************************************************************)
(* C13                                                                     *)
(***************************************************************************)
\* the execute_task call has ended
AEnded == a_pc = "done"

AReturned == AEnded /\ a_outcome[1].kind = "return"

\* the tag is not one of the agent's actions
UnknownTag == a_message = <<>> /\ ActionOf(a_task) \notin Actions(a_self)

MarkerPlaces(text) ==
    {i \in 0..(Len(text) - 7) : SubSeq(text, i + 1, i + 7) = Marker}

\* the places where a fence stands after the marker that stands at i
FencePlacesAfter(text, i) ==
    {j \in (i + 7)..(Len(text) - 3) : SubSeq(text, j + 1, j + 3) = Ticks}

NoMarker(text) == MarkerPlaces(text) = {}

\* the first marker has no fence after it
NoClosing(text) ==
    /\ ~NoMarker(text)
    /\ FencePlacesAfter(text, Min(MarkerPlaces(text))) = {}

\* the text between the marker at i and the fence at j
Between(text, i, j) == SubSeq(text, i + 8, j)

Parses(body) == JsonLoads(body).kind = "return"

\* the text the first marker and the first fence after it enclose
EnclosedText(text) ==
    LET i == Min(MarkerPlaces(text))
    IN Between(text, i, Min(FencePlacesAfter(text, i)))

\* the blocks of the text that are well formed: a marker, the next fence after
\* it, and JSON between the two
ValidBlocks(text) ==
    {b \in MarkerPlaces(text) \X (0..Len(text)) :
        /\ FencePlacesAfter(text, b[1]) # {}
        /\ b[2] = Min(FencePlacesAfter(text, b[1]))
        /\ Parses(Between(text, b[1], b[2]))}

\* the calls made on a response whose content is text
TextCalls == {k \in 1..Len(x_calls) : HasText(x_calls[k].arg)}

TextOf(k) == x_calls[k].arg.d.content.s

\* C14: extract_response returns has_structured_data = false and no
\* structured_data whenever the content has no marker, has the marker but no
\* closing fence after it, or the enclosed text does not parse;
\* has_structured_data is true only if the content holds a well-formed fenced
\* JSON block; and in every case the returned content is the input text.
C14_FalseWithoutBlock ==
    \A k \in TextCalls :
        LET text == TextOf(k)
            out  == x_calls[k].out
        IN /\ out.kind = "return"
           /\ out.value.content = x_calls[k].arg.d.content
           /\ (NoMarker(text) \/ NoClosing(text) \/ ~Parses(EnclosedText(text))) =>
                 /\ out.value.has_structured_data = FALSE
                 /\ "structured_data" \notin DOMAIN out.value
           /\ out.value.has_structured_data => ValidBlocks(text) # {}

\* a block whose text does not parse has been extracted from
C14_Witness ==
    \E k \in TextCalls :
        /\ ~NoMarker(TextOf(k)) /\ ~NoClosing(TextOf(k))
        /\ EnclosedText(TextOf(k)) = <<HalfOpen>>
        /\ x_calls[k].out.value.has_structured_data = FALSE

\* the value of the block b of the text
BlockValue(text, b) == JsonLoads(Between(text, b[1], b[2])).value

\* C15 as stated: for every content that holds a valid fenced JSON block,
\* extract_response returns has_structured_data = true with the value parsed
\* from a valid block; and once the closing fence is removed from a content
\* that extracted to true, it extracts to false.
C15_AsStated ==
    /\ \A k \in TextCalls :
          ValidBlocks(TextOf(k)) # {} =>
              /\ x_calls[k].out.value.has_structured_data
              /\ \E b \in ValidBlocks(TextOf(k)) :
                    x_calls[k].out.value.structured_data = BlockValue(TextOf(k), b)
    /\ (x_dropped /\ Len(x_calls) = 2 /\ x_calls[1].out.value.has_structured_data) =>
          ~x_calls[2].out.value.has_structured_data

\* C15 amended: when the block the first marker opens is valid (the first
\* fence after the first marker closes it and the text between parses),
\* extract_response returns has_structured_data = true with the value parsed
\* from that text; and once that closing fence is removed, it extracts to false
\* provided no fence is left after the marker.
C15_FirstBlock ==
    /\ \A k \in TextCalls :
          LET text == TextOf(k)
          IN (~NoMarker(text) /\ ~NoClosing(text) /\ Parses(EnclosedText(text))) =>
                /\ x_calls[k].out.value.has_structured_data
                /\ x_calls[k].out.value.structured_data =
                      JsonLoads(EnclosedText(text)).value
    /\ (/\ x_dropped /\ Len(x_calls) = 2
        /\ x_calls[1].out.value.has_structured_data
        /\ NoClosing(TextOf(2))) =>
          /\ ~x_calls[2].out.value.has_structured_data
          /\ "structured_data" \notin DOMAIN x_calls[2].out.value

C15_Witness ==
    /\ x_dropped /\ Len(x_calls) = 2
    /\ TextOf(1) = Marker \o <<ObjA>> \o Ticks
    /\ x_calls[1].out.value.structured_data = PyDict([a |-> 1])
    /\ TextOf(2) = Marker \o <<ObjA>>
    /\ ~x_calls[2].out.value.has_structured_data

\* C16: extract_response never raises: for every response, one without content,
\* with a content that is None or not text, or no dict at all included, and for
\* a block of malformed JSON, the call returns a record that carries
\* has_structured_data.
C16_NeverRaises ==
    \A k \in 1..Len(x_calls) :
        /\ x_calls[k].out.kind = "return"
        /\ "has_structured_data" \in DOMAIN x_calls[k].out.value

C16_Witness ==
    /\ Len(x_calls) = 1
    /\ x_calls[1].arg = PyNone
    /\ x_calls[1].out.kind = "return"
    /\ x_calls[1].out.value.has_structured_data = FALSE

IsVerifyResult == a_self = "qa" /\ ActionOf(a_task) = "verify_result"

\* C18: the quality_score in the result of qa verify_result is within 0..10
\* on every path: taken from the provider's structured data, defaulted when
\* the structured data has none, or taken from the fixed fallback object.
C18_ScoreInRange ==
    (AReturned /\ IsVerifyResult /\ "quality_score" \in DOMAIN a_outcome[1].value) =>
        a_outcome[1].value.quality_score \in 0..10

(***************************************************************************)
(* C19                                                                     *)
(***************************************************************************)
\* the three actions that promise a fallback object
IsFallbackAction ==
    \/ a_self = "front" /\ ActionOf(a_task) = "analyze_task"
    \/ a_self = "back" /\ ActionOf(a_task) = "process_task"
    \/ IsVerifyResult

RoleFallback(agent) ==
    CASE agent = "front" -> FrontFallback
      [] agent = "back"  -> BackFallback
      [] agent = "qa"    -> QaFallback

PromisedFields(agent) ==
    CASE agent = "front" -> {"ui_components", "user_flows", "design_considerations",
                             "summary"}
      [] agent = "back"  -> {"data_models", "apis", "business_logic",
                             "implementation_notes", "summary"}
      [] agent = "qa"    -> {"requirements_met", "issues", "improvements",
                             "quality_score", "summary"}

PayloadKeys == {"analysis", "processing_result", "verification", "verification_result"}

\* the result's payload is the object p
HasPayload(result, p) == \E key \in PayloadKeys \cap DOMAIN result : result[key] = p

\* C19: for front analyze_task, back process_task and qa verify_result, once
\* the provider has answered: when extract_response on the answer gives
\* has_structured_data = false the action returns success = true and its payload
\* is the role's fixed fallback object, which holds every field the role
\* promises; when it gives true the action returns the parsed object as its
\* payload.
C19_FallbackOrParsed ==
    (AEnded /\ IsFallbackAction /\ a_gen # <<>>) =>
        LET processed == ExtractResponse(a_response).value
        IN /\ AReturned
           /\ IF processed.has_structured_data
                THEN /\ processed.structured_data.py = "dict"
                     /\ HasPayload(a_outcome[1].value, processed.structured_data.d)
                ELSE /\ a_outcome[1].value.success
                     /\ HasPayload(a_outcome[1].value, RoleFallback(a_self))
                     /\ PromisedFields(a_self) \subseteq DOMAIN RoleFallback(a_self)

(***************************************************************************)
(* C20                                                                     *)
(***************************************************************************)
ErrorPrefix == <<"Erro ao gerar resposta: ">>

\* C20: generate_response never raises: when the provider call fails (it
\* raises, or its answer cannot be read) the call returns a response with
\* error = true whose content is a message text; when the provider answers it
\* returns the answer's content with the three token-usage counters and no
\* error flag.
C20_ErrorsAreFlagged ==
    \A k \in 1..Len(g_calls) :
        LET c == g_calls[k]
        IN /\ c.out.kind = "return"
           /\ WellFormed(c.provider) =>
                /\ c.out.value.d.content = c.provider.value.choices[1].message.content
                /\ c.out.value.d.usage =
                      [ prompt_tokens |-> c.provider.value.usage.prompt_tokens,
                        completion_tokens |-> c.provider.value.usage.completion_tokens,
                        total_tokens |-> c.provider.value.usage.total_tokens ]
                /\ "error" \notin DOMAIN c.out.value.d
           /\ ~WellFormed(c.provider) =>
                /\ Get(c.out.value.d, "error", FALSE) = TRUE
                /\ c.out.value.d.content.py = "str"
                /\ SubSeq(c.out.value.d.content.s, 1, 1) = ErrorPrefix
                /\ Len(c.out.value.d.content.s) > 1

C20_Witness ==
    \E k \in 1..Len(g_calls) :
        /\ g_calls[k].provider = Raise(Exc("RateLimitError", <<"Rate limit reached">>))
        /\ g_calls[k].out.kind = "return"
        /\ g_calls[k].out.value.d.error = TRUE
        /\ g_calls[k].out.value.d.content.s = ErrorPrefix \o <<"Rate limit reached">>

(***************************************************************************)
(* C21                                                                     *)
(***************************************************************************)
\* temperatures are in tenths: [0, 2] is 0..20
TemperatureRange == 0..20

\* C21: a generate_response call with a temperature outside [0, 2] never
\* reaches the provider, and no value other than the one given is sent (no
\* clamping); a call with a temperature inside [0, 2] sends the provider that
\* temperature unchanged.
C21_RejectsOutOfRange ==
    \A k \in 1..Len(g_calls) :
        LET c == g_calls[k]
        IN IF c.temperature \in TemperatureRange
             THEN /\ Len(c.sent) = 1
                  /\ c.sent[1].temperature = c.temperature
             ELSE c.sent = <<>>

(***************************************************************************)
(* C22                                                                     *)
(***************************************************************************)
\* C22: every generate_response call an agent makes, in any action of
\* execute_task and in process_message, is made at the agent's own
\* temperature: 0.7 for front, 0.5 for back, 0.3 for qa.
C22_RoleTemperature ==
    \A k \in 1..Len(a_gen) : a_gen[k].temperature = Temperature(a_self)

\* the back-end agent has called the client from an action left after the
\* class, and the QA agent from process_message
C22_Witness ==
    /\ a_gen # <<>>
    /\ \/ /\ a_self = "back"
          /\ VersionOf(a_self, ActionOf(a_task), a_variant) = "tail"
          /\ a_gen[1].temperature = 5
       \/ /\ a_self = "qa"
          /\ a_message # <<>>
          /\ a_gen[1].temperature = 3

(***************************************************************************)
(* C23, C24                                                                *)
(***************************************************************************)
\* the request is an execute_task call that has called the client
CalledClient == a_message = <<>> /\ a_gen # <<>>

\* the client could not reach the provider: the last call's response is the
\* error-flagged one
ClientFailed ==
    /\ a_gen[Len(a_gen)].provider.kind = "raise"
    /\ Get(a_gen[Len(a_gen)].out.value.d, "error", FALSE)

\* the text holds the fragments of msg, in a row
HoldsText(text, msg) ==
    \E i \in 0..(Len(text) - Len(msg)) : SubSeq(text, i + 1, i + Len(msg)) = msg

\* C23: when generate_response returns its error-flagged response to an
\* action, the action returns success = false with an error text that holds
\* the message of the fault; it does not return the error text as a payload
\* of a successful result.
C23_ClientFailureReported ==
    (AEnded /\ CalledClient /\ ClientFailed) =>
        /\ a_outcome[1].kind = "return"
        /\ a_outcome[1].value.success = FALSE
        /\ "error" \in DOMAIN a_outcome[1].value
        /\ HoldsText(a_outcome[1].value.error, StrExc(a_gen[Len(a_gen)].provider.exc))

\* C24: one execute_task call, of any action of any agent, calls
\* generate_response at most once, whether the call succeeds or fails.
C24_AtMostOneCall ==
    a_message = <<>> => Len(a_gen) <= 1

\* an action has ended after one call that failed
C24_Witness ==
    /\ AEnded
    /\ CalledClient
    /\ ClientFailed
    /\ Len(a_gen) = 1
    /\ ActionOf(a_task) = "generate_api"

(***************************************************************************)
(* C25                                                                     *)
(***************************************************************************)
\* the keys under which process_task hands a stage's result to the next stage
HandedOnKeys == {"front_analysis", "back_result", "qa_result"}

\* the results of earlier stages that the task of a call carries
Consumed(task) == {task[key] : key \in HandedOnKeys \cap DOMAIN task}

\* C25: a result an agent returned with success = false holds an error text,
\* and no stage that runs after it is handed that result.
C25_FailedPayloadNotConsumed ==
    \A r \in Runs :
        /\ \A k \in 1..Len(results[r]) :
              ~Get(results[r][k], "success", FALSE) => "error" \in DOMAIN results[r][k]
        /\ \A i \in 1..Len(calls[r]) :
              \A res \in Consumed(calls[r][i].task) : Get(res, "success", FALSE)

(***************************************************************************)
(* C26                                                                     *)
(***************************************************************************)
\* the turns of a history argument
TurnsOf(history) == IF history.py = "list" THEN history.items ELSE <<>>

\* C26: create_context(system_prompt, user_message, history) returns the
\* system message first, then the turns of the history in their order, then
\* the user message last, 2 + len(history) messages in all, and the history
\* list the caller holds is the same after the call.
C26_ContextOrder ==
    \A k \in 1..Len(k_calls) :
        LET c == k_calls[k]
            h == TurnsOf(c.history)
        IN /\ Len(c.out) = 2 + Len(h)
           /\ c.out[1] = [role |-> "system", content |-> c.system_prompt]
           /\ \A i \in 1..Len(h) : c.out[i + 1] = h[i]
           /\ c.out[Len(c.out)] = [role |-> "user", content |-> c.user_message]
           /\ k = Len(k_calls) => k_history = c.history

\* a call with a history of three turns that are not in role order
C26_Witness ==
    /\ k_calls # <<>>
    /\ k_calls[1].history =
          PyList(<< [role |-> "assistant", content |-> <<"resposta">>],
                    [role |-> "user", content |-> <<"pergunta">>],
                    [role |-> "system", content |-> <<"nota">>] >>)
    /\ Len(k_calls[1].out) = 5
    /\ k_calls[1].out[2].role = "assistant"
    /\ k_history = k_calls[1].history

(***************************************************************************)
(* C27, C28                                                                *)
(***************************************************************************)
\* the sequence generate_code is to follow
CodeSequence ==
    << [agent |-> "back", action |-> "analyze_data_model"],
       [agent |-> "back", action |-> "generate_api"],
       [agent |-> "front", action |-> "generate_ui_code"],
       [agent |-> "qa", action |-> "generate_tests"],
       [agent |-> "qa", action |-> "security_audit"] >>

\* stage k returned a result with success = false
ReturnedFailure(k) ==
    /\ k <= Len(c_results)
    /\ c_results[k].py = "dict"
    /\ Get(c_results[k].d, "success", TRUE) = FALSE

\* C27: the calls generate_code makes are a prefix of the sequence back
\* analyze_data_model, back generate_api, front generate_ui_code, qa
\* generate_tests, qa security_audit, one call each, in that order; when a
\* stage returns success = false the call ends with success = false and that
\* stage's error, and no later stage is called.
C27_CodePrefixFailFast ==
    /\ Len(c_calls) <= Len(CodeSequence)
    /\ \A i \in 1..Len(c_calls) :
          [agent |-> c_calls[i].agent, action |-> c_calls[i].action] = CodeSequence[i]
    /\ \A k \in 1..Len(c_results) :
          ReturnedFailure(k) =>
              /\ Len(c_calls) = k
              /\ c_pc = "done"
              /\ c_outcome[1].value.success = FALSE
              /\ c_outcome[1].value.error = c_results[k].d.error

\* the front-end stage failed after two back-end stages
C27_Witness ==
    /\ ReturnedFailure(3)
    /\ Len(c_calls) = 3
    /\ c_calls[3].agent = "front"
    /\ c_outcome[1].value.error = <<"Erro ao analisar resposta: ", "Expecting value">>

\* every stage has returned a result with success = true
AllCodeStagesSucceeded ==
    /\ Len(c_results) = Len(CodeSequence)
    /\ \A k \in 1..Len(c_results) :
          c_results[k].py = "dict" /\ Get(c_results[k].d, "success", FALSE)

\* C28: when the five stages succeed, generate_code returns success = true
\* with the task id and a status, and the composite holds each stage's own
\* output: backend.data_model the model analyze_data_model produced,
\* backend.api_code the code of generate_api, frontend.ui_code the code of
\* generate_ui_code, qa.tests the text of generate_tests and qa.security the
\* audit of security_audit.
C28_CompositeBundlesOutputs ==
    (c_pc = "done" /\ AllCodeStagesSucceeded) =>
        LET ret == c_outcome[1].value
            out(k) == c_results[k].d[ResultKey(CodeSequence[k].action)]
        IN /\ ret.success = TRUE
           /\ ret.task_id = c_task.task_id
           /\ "status" \in DOMAIN ret
           /\ ret.backend.data_model = out(1)
           /\ ret.backend.api_code = out(2)
           /\ ret.frontend.ui_code = out(3)
           /\ ret.qa.tests = out(4)
           /\ ret.qa.security = out(5)

(***************************************************************************)
(* C29                                                                     *)
(***************************************************************************)
\* the run has its task row
Started(r) == task_id[r] # 0

\* the entries of task id that its stages wrote
StageLog(id) == SelectSeq(TaskLog(id), LAMBDA e : e.agent_name # "system")

\* the number of stages of run r whose entry is written
Logged(r) == IF pc[r] = "log" THEN Len(results[r]) - 1 ELSE Len(results[r])

\* run r is past the log_interaction of its except branch
ErrorLogged(r) == pc[r] = "except_update" \/ (pc[r] = "done" /\ caught[r] # <<>>)

Serving == a_pc \notin {"idle", "done"}

\* C30: while an agent serves a request, its memory holds nothing that was
\* written while it served another request: it holds the message of the
\* request being served, if the request is a message, and nothing else.
C30_NothingShared ==
    Serving => a_memory = a_message

(***************************************************************************)
(* Vocabulary of the properties of the AuthManager.                        *)
(***************************************************************************)
\* the last call is a call of the method
LastIs(op) == u_last.op = op

\* the call found the token's session, neither idle for too long nor past
\* the token's exp
FoundAlive(call) ==
    /\ call.found.py = "dict"
    /\ call.at - call.found.d.last_access <= call.found.d.max_idle_time
    /\ call.at < call.token.payload.exp

CameBackFailed(call) ==
    /\ call.out.kind = "return"
    /\ ("success" \notin DOMAIN call.out.value.d \/ call.out.value.d.success = FALSE)

\* process_task has returned the record
TaskReturned(rec) == p_pc = "done" /\ p_outcome = <<Return(rec)>>

\* the error text of a failed result, or the words process_task has for the stage
ErrorOf(call) ==
    IF "error" \in DOMAIN call.out.value.d
      THEN call.out.value.d.error
      ELSE CASE call.stage = 1 -> <<"Erro na análise de front-end">>
             [] call.stage = 2 -> <<"Erro no processamento de back-end">>
             [] call.stage = 3 -> <<"Erro na verificação de QA">>
             [] call.stage = 4 -> <<"Erro na preparação da resposta final">>

(***************************************************************************)
(* C32: in the in-memory process_task a stage result with success false    *)
(* (or missing) is the last agent call made: the call returns success      *)
(* false with the task id and the result's error, or the stage's default   *)
(* words when it has none; the task a QA call receives holds a back-end    *)
(* result that succeeded; a stage that raises is the last call made and    *)
(* the call returns success false with status "erro".                      *)
(***************************************************************************)
C32_TaskFailFast ==
    /\ \A i \in DOMAIN p_calls :
         CameBackFailed(p_calls[i]) =>
           /\ i = Len(p_calls)
           /\ TaskReturned([ success |-> FALSE, error |-> ErrorOf(p_calls[i]),
                             task_id |-> p_task.task_id ])
    /\ \A i \in DOMAIN p_calls :
         p_calls[i].agent = "qa" =>
           /\ "back_result" \in DOMAIN p_calls[i].task
           /\ p_calls[i].task.back_result.d.success = TRUE
    /\ \A i \in DOMAIN p_calls :
         p_calls[i].out.kind = "raise" =>
           /\ i = Len(p_calls)
           /\ p_pc = "done"
           /\ p_outcome[1].value.success = FALSE
           /\ p_outcome[1].value.status = "erro"
           /\ p_outcome[1].value.task_id = p_task.task_id

\* the back-end stage came back with neither flag nor error: process_task
\* has returned the stage's default words and QA was not called
C32_Witness ==
    /\ Len(p_calls) = 2
    /\ CameBackFailed(p_calls[2])
    /\ "error" \notin DOMAIN p_calls[2].out.value.d
    /\ p_pc = "done"
    /\ p_outcome[1].value.error = <<"Erro no processamento de back-end">>

\* the call did not get into the agent: Python refused the arguments
IsCallError(out) == out.kind = "raise" /\ out.exc.type = "TypeError"

\* the call ended in the else branch of the agent's execute_task
IsUnknownAction(out) ==
    /\ out.kind = "return"
    /\ "error" \in DOMAIN out.value.d
    /\ Len(out.value.d.error) > 0
    /\ out.value.d.error[1] = "Ação desconhecida: "

(***************************************************************************)
(* C33: every stage call the in-memory process_task makes runs the action  *)
(* it asked for: the call ends neither in a call error nor in the agent's  *)
(* unknown-action failure.                                                 *)
(***************************************************************************)
C33_RequestedActionRuns ==
    \A i \in DOMAIN p_calls :
        /\ ~IsCallError(p_calls[i].out)
        /\ ~IsUnknownAction(p_calls[i].out)

\* the fault is one _execute_agent_task raises before it reaches an agent
IsLookupFault(exc) ==
    \/ exc.type = "AttributeError"
    \/ exc.type = "ValueError" /\ exc.msg[1] = "Agente não encontrado: "

\* the constructor argument the stage's name stands for
ConstructorAgent(k) ==
    CASE k = 1 -> "front" [] k = 2 -> "back" [] k = 3 -> "qa" [] k = 4 -> "front"

(***************************************************************************)
(* C34: with the Orchestrator as its constructor leaves it, every stage of *)
(* process_task reaches the agent given to the constructor under the       *)
(* stage's name: no stage ends in a fault of the lookup, and every agent   *)
(* call made is a call of that agent.                                      *)
(***************************************************************************)
C34_ConstructorAgentsReached ==
    agents = NoAgents =>
      \A r \in Runs :
          /\ caught[r] # <<>> => ~IsLookupFault(caught[r][1])
          /\ \A i \in DOMAIN calls[r] :
                 calls[r][i].agent = ConstructorAgent(calls[r][i].stage)

\* the requirements hold the data model: they are it, or have it under a key
Includes(requirements, data_model) ==
    \/ requirements = data_model
    \/ /\ requirements.py = "dict"
       /\ \E key \in DOMAIN requirements.d : requirements.d[key] = data_model

(***************************************************************************)
(* C35: in generate_code the requirements generate_api and                 *)
(* generate_ui_code work from include the data model analyze_data_model    *)
(* returned, and the code generate_tests and security_audit work on is the *)
(* code the back-end or the front-end stage of the run returned, not the   *)
(* empty default.                                                          *)
(***************************************************************************)
C35_StagesConsumeEarlierOutputs ==
    \A i \in DOMAIN c_calls :
        LET call == c_calls[i]
        IN /\ call.stage \in {2, 3} =>
                Includes(ActionInput(call.action, call.task), c_results[1].d.data_model)
           /\ call.stage \in {4, 5} =>
                /\ ActionInput(call.action, call.task) # PyStr(<<>>)
                /\ ActionInput(call.action, call.task)
                     \in {c_results[2].d.code, c_results[3].d.code}

\* execute_task is in progress: the agent has been called and has not returned
InExecuteTask == a_pc \notin {"idle", "done"} /\ a_message = <<>>

LastValidates == LastIs("validate_token") \/ LastIs("require_auth")

(***************************************************************************)
(* C37: a token that was logged out and not issued again since does not    *)
(* pass validate_token or require_auth; logout returns True exactly when   *)
(* it found a session under the token, after it the token has no session,  *)
(* a logout that found none changes nothing, and every other token's       *)
(* session is as it was before the logout.                                 *)
(***************************************************************************)
C37_LogoutEndsSession ==
    /\ LastValidates /\ u_last.token \in u_ended => ~u_last.out[1]
    /\ LastIs("logout") =>
         /\ u_last.out = (u_last.token \in DOMAIN u_last.before)
         /\ u_last.token \notin DOMAIN u_sessions
         /\ ~u_last.out => u_sessions = u_last.before
         /\ \A t \in (DOMAIN u_last.before) \ {u_last.token} :
                t \in DOMAIN u_sessions /\ u_sessions[t] = u_last.before[t]

\* a token that was issued and logged out is validated
C37_Witness ==
    /\ LastIs("validate_token")
    /\ u_last.token \in u_ended
    /\ \E i \in DOMAIN u_issued : u_issued[i] = u_last.token

\* the call found the token's session idle for longer than its max_idle_time
FoundIdle(call) ==
    /\ call.found.py = "dict"
    /\ call.at - call.found.d.last_access > call.found.d.max_idle_time

(***************************************************************************)
(* C38: validate_token fails for a token whose session it finds idle for   *)
(* longer than max_idle_time and removes the session; every validation of  *)
(* a token whose session was once found so fails; a validation that        *)
(* succeeds leaves the session's last access at the time of the call; one  *)
(* that fails leaves no session under the token, or the session as it      *)
(* found it.                                                               *)
(***************************************************************************)
C38_IdleSessionsLapse ==
    LastIs("validate_token") =>
      /\ FoundIdle(u_last) =>
           ~u_last.out[1] /\ u_last.token \notin DOMAIN u_sessions
      /\ u_last.token \in u_lapsed => ~u_last.out[1]
      /\ u_last.out[1] =>
           /\ u_last.token \in DOMAIN u_sessions
           /\ u_sessions[u_last.token].last_access = u_last.at
      /\ ~u_last.out[1] =>
           \/ u_last.token \notin DOMAIN u_sessions
           \/ PyDict(u_sessions[u_last.token]) = u_last.found

\* a token whose session lapsed earlier is validated again, and the same
\* user holds a newer token
C38_Witness ==
    /\ LastIs("validate_token")
    /\ u_last.token \in u_lapsed
    /\ u_last.found = PyNone
    /\ u_sessions # <<>>

\* what validate_token returns for the call's token, on the sessions the call
\* started from and at the call's time
Validation(call) == ValidateToken(call.before, call.token, call.at).out

\* the call names a role, and the token's role is another one
RoleDiffers(call) ==
    /\ call.required_role.py = "str"
    /\ call.required_role.s # ""
    /\ Validation(call)[2].d.role # call.required_role.s

(***************************************************************************)
(* C39: require_auth succeeds only if validate_token succeeds for the      *)
(* token and the token's role is the required one when one is required;    *)
(* when the validation fails it returns the validation's error and no      *)
(* user data; when only the role differs it returns the access-denied      *)
(* error and no user data; otherwise it returns the token's payload.       *)
(***************************************************************************)
C39_RequireAuth ==
    LastIs("require_auth") =>
      LET v == Validation(u_last)
      IN /\ ~v[1] => u_last.out = <<FALSE, PyNone, v[3]>>
         /\ v[1] /\ RoleDiffers(u_last) =>
              /\ ~u_last.out[1]
              /\ u_last.out[2] = PyNone
              /\ u_last.out[3].py = "str"
              /\ u_last.out[3].s[1] = "Acesso negado. Função '"
              /\ u_last.out[3].s[2] = u_last.required_role.s
         /\ v[1] /\ ~RoleDiffers(u_last) => u_last.out = <<TRUE, v[2], PyNone>>

\* a valid token of a user without the admin role is refused the admin role
C39_Witness ==
    /\ LastIs("require_auth")
    /\ Validation(u_last)[1]
    /\ u_last.required_role = PyStr("admin")
    /\ Validation(u_last)[2].d.role = "user"
    /\ ~u_last.out[1]

(***************************************************************************)
(* Vocabulary of the properties of the A2AHandler.                         *)
(***************************************************************************)
\* the n-th message built is a response to the i-th
IsResponseTo(n, i) ==
    /\ "in_reply_to" \in DOMAIN m_messages[n]
    /\ i < n
    /\ m_messages[n].in_reply_to = m_messages[i].id

\* the message was built by create_response
BuiltByCreateResponse(n) == "in_reply_to" \in DOMAIN m_messages[n]

\* what the claim lets through: the six fields, a known type and, for a
\* response, in_reply_to and status
WellFormedMessage(message) ==
    /\ {"id", "timestamp", "sender", "receiver", "type", "content"} \subseteq DOMAIN message
    /\ message.type \in {"request", "response", "notification"}
    /\ message.type = "response" => {"in_reply_to", "status"} \subseteq DOMAIN message

(***************************************************************************)
(* C40: a message create_message built with type request or notification   *)
(* and every message create_response built is one validate_message         *)
(* accepts; a response has the original's receiver as sender, its sender   *)
(* as receiver and its id as in_reply_to; validate_message rejects a dict  *)
(* that lacks one of id, timestamp, sender, receiver, type, content, has   *)
(* a type outside request, response, notification, or is a response        *)
(* without in_reply_to or status, and accepts every other dict.            *)
(***************************************************************************)
C40_MessagesValidate ==
    /\ \A n \in DOMAIN m_messages :
         /\ (BuiltByCreateResponse(n) \/ m_messages[n].type \in {"request", "notification"})
              => WellFormedMessage(m_messages[n])
         /\ BuiltByCreateResponse(n) =>
              \E i \in DOMAIN m_messages :
                  /\ IsResponseTo(n, i)
                  /\ m_messages[n].sender = m_messages[i].receiver
                  /\ m_messages[n].receiver = m_messages[i].sender
                  /\ m_messages[n].type = "response"
    /\ \A j \in DOMAIN m_checked :
         m_checked[j].out = WellFormedMessage(m_checked[j].message)

\* a response to a message that went from one agent to another was
\* validated, and so was a dict that validate_message rejects
C40_Witness ==
    /\ \E n \in DOMAIN m_messages, i \in DOMAIN m_messages :
         /\ IsResponseTo(n, i)
         /\ m_messages[i].sender # m_messages[i].receiver
         /\ \E j \in DOMAIN m_checked :
              m_checked[j].message = m_messages[n] /\ m_checked[j].out
    /\ \E j \in DOMAIN m_checked : ~m_checked[j].out

====
